---- MODULE Spec2Model ----
(***************************************************************************)
(* Model of the document-to-billing workflow of arcade-orb-workflow:       *)
(*   - the file watcher and its processed-files ledger                     *)
(*       (orb-workflow/agents/document_watcher_agent.py),                  *)
(*   - the email watcher and its processed-emails ledger                   *)
(*       (orb-workflow/agents/email_watcher_agent.py),                     *)
(*   - the driver loop and the processing graph                            *)
(*       (orb-workflow/langgraph_orchestrator.py),                         *)
(*   - the Slack verification conversation                                 *)
(*       (orb-workflow/agents/slack_human_verification_agent.py,           *)
(*        orb-workflow/custom_tools/slack_helper.py),                      *)
(*   - validation and provisioning                                         *)
(*       (orb-workflow/agents/billing_configurator_agent.py).              *)
(*                                                                         *)
(* Python None is the string None for string-valued fields, the empty      *)
(* sequence for error fields and 0 for Slack timestamps (real timestamps   *)
(* start at 1).  A data mapping is held in the state by the name of its    *)
(* row in DataTable.                                                       *)
(***************************************************************************)
EXTENDS Naturals, Integers, Sequences, FiniteSets, TLC

None == "None"

NoTs == 0

(***************************************************************************)
(* Bounds of the model.                                                    *)
(***************************************************************************)
\* number of workflow runs the driver may launch
MaxRuns == 2
\* Slack timestamps handed out by the transport
MaxTs == 14
\* human replies not yet consumed in one thread
MaxPending == 1
\* polls of one wait_for_response call before its timeout elapses
MaxPolls == 1
\* validation-failure loop-backs of one run
MaxLoops == 1
\* documents waiting in the watcher's queue
MaxQueue == 2
\* replies a human writes into one run's threads while the run is busy
\* with an earlier reply
MaxRaces == 1
\* the limits of the model with a human who only ever approves
ApproverLoops == 6
ApproverTs == 20
\* Slack timestamps of the model of the whole system
SystemTs == 6
IsolationTs == 2
ValidationTs == 4
\* ... and of the model with the further replies
ReplyTs == 6

(***************************************************************************)
(* Program constants.                                                      *)
(***************************************************************************)
\* langgraph_orchestrator.py:138  max_retries=5
max_retries == 5
\* langgraph_orchestrator.py:502  the email source is polled every 60 s;
\* times are in tenths of a second
EmailInterval == 600
\* langgraph_orchestrator.py:558  sleep(5) after a tick that found nothing
IdleSleep == 50
\* langgraph_orchestrator.py:554  sleep(0.1) after a launch
LaunchSleep == 1

(***************************************************************************)
(* Documents, emails and data mappings.                                    *)
(***************************************************************************)
Paths == {"a.pdf"}

EmailIds == {"e1"}

\* The mappings the extraction model and the change-applying model can
\* return.  Values are the JSON texts of the fields.
DataTable ==
  [ scenario1 |-> [name |-> "Acme", email |-> "a@x.com", plan |-> "Pro Plan", seats |-> "3"],
    company   |-> [company |-> "Acme", email |-> "a@x.com", plan |-> "Pro Plan", seats |-> "3"],
    noemail   |-> [company |-> "Acme", plan |-> "Pro Plan", seats |-> "3"],
    badplan   |-> [company |-> "Acme", email |-> "a@x.com", plan |-> "gold", seats |-> "3"],
    empty     |-> [k \in {} |-> ""],
    \* further mappings, for validate_data
    planid    |-> [company |-> "Acme", email |-> "a@x.com", plan |-> "plan_custom"],
    basic     |-> [customer_name |-> "Acme", contact |-> "a@x.com", subscription |-> " Basic "],
    enterprise |-> [name |-> "Acme", email |-> "a@x.com", plan_type |-> "Enterprise"],
    fallback  |-> [company |-> "", name |-> "Acme", email |-> "N/A", contact |-> "a@x.com",
                   plan |-> "Pro Plan"],
    naemail   |-> [company |-> "Acme", email |-> "N/A", plan |-> "Pro Plan"],
    noname    |-> [email |-> "a@x.com", plan |-> "Pro Plan"],
    noplan    |-> [company |-> "Acme", email |-> "a@x.com", seats |-> "3"],
    blankplan |-> [company |-> "Acme", email |-> "a@x.com", plan |-> ""],
    nullplan  |-> [company |-> "Acme", email |-> "a@x.com", plan |-> "null"],
    otherkey  |-> [customer |-> "Acme", email |-> "a@x.com", plan |-> "Pro Plan"] ]

\* the mappings the extraction and the change-applying model return in the
\* specifications of the engine
DataIds == {"scenario1", "company", "noemail", "badplan", "empty"}

\* every mapping, for the specification that exercises validate_data
ValidationIds == DOMAIN DataTable

\* Python truthiness of an Optional[Dict] held by name
Truthy(d) == d # None /\ DOMAIN DataTable[d] # {}

(***************************************************************************)
(* str.strip().lower() and key.lower() on the strings of the model.        *)
(***************************************************************************)
StripLower(s) ==
  CASE s = "Pro Plan" -> "pro plan"
    [] s = "Enterprise" -> "enterprise"
    [] s = " Basic " -> "basic"
    [] OTHER -> s

StartsWithPlan_(s) == s \in {"plan_custom"}

plan_map ==
  [ x \in {"basic", "basic plan", "pro", "pro plan", "enterprise", "enterprise plan"} |->
      CASE x \in {"basic", "basic plan"} -> "plan_basic_monthly"
        [] x \in {"pro", "pro plan"} -> "plan_pro_monthly"
        [] OTHER -> "plan_enterprise_yearly" ]

\* A faulty variant of _get_plan_id: only the names of plan_map are mapped.
\* C21 does not hold of it.
_get_plan_id_names_only(plan_name) ==
  LET plan_name_lower == IF plan_name \in {None, ""} THEN "" ELSE StripLower(plan_name)
  IN  IF plan_name_lower \in DOMAIN plan_map THEN plan_map[plan_name_lower] ELSE None

\* BillingConfiguratorAgent._get_plan_id
_get_plan_id(plan_name) ==
  LET plan_name_lower == IF plan_name \in {None, ""} THEN "" ELSE StripLower(plan_name)
  IN  IF plan_name_lower \in DOMAIN plan_map THEN plan_map[plan_name_lower]
      ELSE IF StartsWithPlan_(plan_name_lower) THEN plan_name_lower
      ELSE None

required_fields ==
  << [canonical |-> "customer_name", variations |-> <<"company", "customer_name", "name">>],
     [canonical |-> "email",         variations |-> <<"email", "contact", "email/contact">>],
     [canonical |-> "plan_type",     variations |-> <<"subscription", "plan", "plan_type", "subscription/plan_type">>] >>

\* first variation present in the mapping with a usable value, or None
FoundValue(data, variations) ==
  LET ok == { i \in 1..Len(variations) :
                /\ variations[i] \in DOMAIN data
                /\ data[variations[i]] \notin {None, "", "N/A", "null"} }
  IN  IF ok = {} THEN None
      ELSE data[variations[CHOOSE i \in ok : \A j \in ok : i <= j]]

\* BillingConfiguratorAgent.validate_data: <<is_valid, error>>; the error is
\* <<>> for None, <<"missing", fields>> or <<"unmappable", <<value>>>>.
validate_data(data) ==
  LET missing == SelectSeq(<<1, 2, 3>>,
                   LAMBDA i : FoundValue(data, required_fields[i].variations) = None)
      plan_type_value == FoundValue(data, required_fields[3].variations)
  IN  IF missing # <<>>
        THEN <<FALSE, <<"missing", [i \in 1..Len(missing) |-> required_fields[missing[i]].canonical]>>>>
      ELSE IF _get_plan_id(plan_type_value) = None
        THEN <<FALSE, <<"unmappable", <<plan_type_value>>>>>>
      ELSE <<TRUE, <<>>>>

(***************************************************************************)
(* BillingConfiguratorAgent.configure_billing, the part before the remote  *)
(* calls: key lookup on lower-cased keys and plan mapping.                 *)
(***************************************************************************)
LowerKey(k) == CASE k = "Company" -> "company" [] OTHER -> k

data_lower(data) ==
  [ kl \in { LowerKey(k) : k \in DOMAIN data } |->
      data[CHOOSE k \in DOMAIN data : LowerKey(k) = kl] ]

\* a.get(k1) or a.get(k2) or ... : the first truthy value, else None
GetFirst(dl, chain) ==
  LET ok == { i \in 1..Len(chain) : chain[i] \in DOMAIN dl /\ dl[chain[i]] \notin {None, ""} }
  IN  IF ok = {} THEN None ELSE dl[chain[CHOOSE i \in ok : \A j \in ok : i <= j]]

customer_name_keys == <<"customer_name", "customername", "company", "customer">>

customer_email_keys ==
  <<"customer_email", "customeremail", "contact_email", "contact email",
    "contactemail", "email", "email/contact">>

plan_type_keys ==
  <<"plan_type", "subscriptionplan", "subscription plan", "subscription_plan_type",
    "subscription/plan_type", "plan", "subscription">>

\* the arguments configure_billing derives, or the error it raises before
\* any remote call: [error, name, email, plan_id]
billing_args(data) ==
  LET dl == data_lower(data)
      customer_name == GetFirst(dl, customer_name_keys)
      customer_email == GetFirst(dl, customer_email_keys)
      plan_type == GetFirst(dl, plan_type_keys)
      plan_key == IF plan_type = None THEN None ELSE StripLower(plan_type)
  IN  IF None \in {customer_name, customer_email, plan_type}
        THEN [error |-> <<"Missing required fields">>, name |-> None, email |-> None, plan_id |-> None]
      ELSE IF plan_key \notin DOMAIN plan_map
        THEN [error |-> <<"Could not map plan type">>, name |-> None, email |-> None, plan_id |-> None]
      ELSE [error |-> <<>>, name |-> customer_name, email |-> customer_email,
            plan_id |-> plan_map[plan_key]]

(***************************************************************************)
(* The Orb toolkit (arcade/orb_toolkit/arcade_orb_toolkit/tools/orb_api.py)*)
(* the worker runs for CreateCustomer and CreateSubscription: its tools    *)
(* and the HTTP helper they share.                                         *)
(***************************************************************************)
OrbTools == {"create_customer", "get_customer", "create_subscription", "get_subscription"}

\* the request a tool hands to _make_orb_request
OrbRequest(tool) ==
  CASE tool = "create_customer" -> [method |-> "POST", endpoint |-> "/customers"]
    [] tool = "get_customer" -> [method |-> "GET", endpoint |-> "/customers/{customer_id}"]
    [] tool = "create_subscription" -> [method |-> "POST", endpoint |-> "/subscriptions"]
    [] OTHER -> [method |-> "GET", endpoint |-> "/subscriptions/{subscription_id}"]

HttpStatuses == {200, 201, 204, 400, 401, 404, 422, 500, 503}

\* response bodies: the text, and whether json.loads accepts it
HttpBodies ==
  { [text |-> "{\"id\": \"cust_1\"}", is_json |-> TRUE],
    [text |-> "{\"error\": \"Not Found\"}", is_json |-> TRUE],
    [text |-> "<html>Bad Gateway</html>", is_json |-> FALSE],
    [text |-> "", is_json |-> FALSE] }

\* what client.request gives: a response, or an httpx.RequestError
HttpOutcomes ==
  { [kind |-> "response", status |-> st, body |-> b] : st \in HttpStatuses, b \in HttpBodies }
    \cup { [kind |-> "request_error", status |-> 0, body |-> [text |-> t, is_json |-> FALSE]] :
             t \in {"timed out", "connection refused"} }

\* response.json(): the parsed value of a JSON text
ParseJson(text) == [kind |-> "object", of |-> text]

\* response.text: the text as it came
RawText(text) == [kind |-> "str", of |-> text]

\* f"API Error: {e.response.status_code}"
ApiError(status) ==
  CASE status = 400 -> "API Error: 400"
    [] status = 401 -> "API Error: 401"
    [] status = 404 -> "API Error: 404"
    [] status = 422 -> "API Error: 422"
    [] status = 500 -> "API Error: 500"
    [] OTHER -> "API Error: 503"

\* A faulty variant of _make_orb_request: an HTTPStatusError is not caught.
\* C24 does not hold of it.
_make_orb_request_reraises(outcome) ==
  IF outcome.kind = "request_error"
    THEN [returned |-> TRUE, value |-> [error |-> "Request Error", details |-> RawText(outcome.body.text)]]
  ELSE IF outcome.status = 204
    THEN [returned |-> TRUE, value |-> [success |-> TRUE, status_code |-> 204]]
  ELSE IF outcome.status >= 400
    THEN [returned |-> FALSE, value |-> "HTTPStatusError"]
  ELSE [returned |-> TRUE,
        value |-> IF outcome.body.is_json THEN ParseJson(outcome.body.text)
                  ELSE [error |-> "Invalid response format", details |-> RawText(outcome.body.text)]]

\* _make_orb_request: what the helper returns for an outcome of the HTTP
\* call; every exception is caught inside it
_make_orb_request(outcome) ==
  IF outcome.kind = "request_error"
    THEN [returned |-> TRUE, value |-> [error |-> "Request Error", details |-> RawText(outcome.body.text)]]
  ELSE IF outcome.status = 204
    THEN [returned |-> TRUE, value |-> [success |-> TRUE, status_code |-> 204]]
  ELSE IF outcome.status >= 400
    THEN \* raise_for_status, caught as httpx.HTTPStatusError
         [returned |-> TRUE,
          value |-> [error |-> ApiError(outcome.status),
                     details |-> IF outcome.body.is_json THEN ParseJson(outcome.body.text)
                                 ELSE RawText(outcome.body.text)]]
  ELSE [returned |-> TRUE,
        value |-> IF outcome.body.is_json THEN ParseJson(outcome.body.text)
                  ELSE [error |-> "Invalid response format", details |-> RawText(outcome.body.text)]]

\* no tool of the toolkit has been called
NoCall == [tool |-> None, request |-> None, outcome |-> None, result |-> None]

(***************************************************************************)
(* The log files of the two watchers (PROCESSED_FILES_LOG,                 *)
(* processed_emails.json).  A text either parses to the keys it lists or   *)
(* does not parse; keys then tells how long the text is.                   *)
(***************************************************************************)
\* the text json.dump writes for a set of keys
Content(keys) == [parses |-> TRUE, keys |-> keys]

\* no log written yet
NoLogs == [files |-> Content({}), emails |-> Content({})]

\* _load_processed_files, _load_processed_emails: a text that does not parse
\* gives the empty set
Load(content) == IF content.parses THEN content.keys ELSE {}

\* the text of keys is written at offset 0 through a handle opened with
\* mode 'w' some time ago: a text at least as long as what the file holds now
\* replaces it, a shorter one leaves the tail of the longer text behind it
Overwrite(old, keys) ==
  IF Cardinality(keys) >= Cardinality(old.keys) THEN Content(keys)
  ELSE [parses |-> FALSE, keys |-> old.keys]

\* a graph task that is not inside mark_as_processed or mark_email_processed
NotSaving == [pc |-> "idle", listed |-> {}]

(***************************************************************************)
(* State.                                                                  *)
(***************************************************************************)
VARIABLES
  dir_files,         \* files present in the documents directory
  processed_files,   \* DocumentWatcherAgent.processed_files
  document_queue,    \* DocumentWatcherAgent.document_queue
  inbox,             \* emails the mailbox lists
  processed_emails,  \* EmailWatcherAgent.processed_emails
  email_queue,       \* EmailWatcherAgent.email_queue
  driver,            \* run_workflow: its position and its email timer
  run,               \* the launched graph tasks, by launch order
  slack_clock,       \* the next timestamp Slack assigns in the threads of each run
  token,             \* SlackHelper._token_fetched / _slack_token
  bot_user_id,       \* whether SLACK_BOT_USER_ID is configured
  env,               \* what the surroundings of the program are limited to
  orb,               \* the last call of a tool of the Orb toolkit and what it gave
  disk,              \* the texts of PROCESSED_FILES_LOG and processed_emails.json
  saving             \* per graph task, how far its call of mark_as_processed is

vars == <<dir_files, processed_files, document_queue, inbox, processed_emails,
          email_queue, driver, run, slack_clock, token, bot_user_id, env, orb, disk, saving>>

RunIds == 1..MaxRuns

Texts == {"approve", "change plan to enterprise"}

approval_keywords == {"approve", "approved", "verified", "looks good", "lg", "yes", "confirm"}

\* further replies a human can write: an approval together with a request,
\* a request whose words happen to hold a keyword, and an approval in
\* capitals with blanks around it
ReplyTexts ==
  Texts \cup {"Yes, but change plan to enterprise", "fix the billing algorithm", " LGTM "}

\* the characters of the replies and of the keywords
Chars ==
  ("approve" :> <<"a", "p", "p", "r", "o", "v", "e">>) @@
  ("change plan to enterprise" :> <<"c", "h", "a", "n", "g", "e", " ", "p", "l", "a", "n", " ", "t", "o", " ", "e", "n", "t", "e", "r", "p", "r", "i", "s", "e">>) @@
  ("Yes, but change plan to enterprise" :> <<"Y", "e", "s", ",", " ", "b", "u", "t", " ", "c", "h", "a", "n", "g", "e", " ", "p", "l", "a", "n", " ", "t", "o", " ", "e", "n", "t", "e", "r", "p", "r", "i", "s", "e">>) @@
  ("fix the billing algorithm" :> <<"f", "i", "x", " ", "t", "h", "e", " ", "b", "i", "l", "l", "i", "n", "g", " ", "a", "l", "g", "o", "r", "i", "t", "h", "m">>) @@
  (" LGTM " :> <<" ", "L", "G", "T", "M", " ">>) @@
  ("approved" :> <<"a", "p", "p", "r", "o", "v", "e", "d">>) @@
  ("verified" :> <<"v", "e", "r", "i", "f", "i", "e", "d">>) @@
  ("looks good" :> <<"l", "o", "o", "k", "s", " ", "g", "o", "o", "d">>) @@
  ("lg" :> <<"l", "g">>) @@
  ("yes" :> <<"y", "e", "s">>) @@
  ("confirm" :> <<"c", "o", "n", "f", "i", "r", "m">>)

UpperCase == <<"A", "B", "C", "D", "E", "F", "G", "H", "I", "J", "K", "L", "M",
               "N", "O", "P", "Q", "R", "S", "T", "U", "V", "W", "X", "Y", "Z">>

LowerCase == <<"a", "b", "c", "d", "e", "f", "g", "h", "i", "j", "k", "l", "m",
               "n", "o", "p", "q", "r", "s", "t", "u", "v", "w", "x", "y", "z">>

\* str.lower
lower(cs) ==
  [ i \in 1..Len(cs) |->
      IF \E k \in 1..26 : UpperCase[k] = cs[i]
        THEN LowerCase[CHOOSE k \in 1..26 : UpperCase[k] = cs[i]]
      ELSE cs[i] ]

\* str.strip
strip(cs) ==
  LET inner == { i \in 1..Len(cs) : cs[i] # " " }
  IN  IF inner = {} THEN <<>>
      ELSE SubSeq(cs, CHOOSE i \in inner : \A j \in inner : i <= j,
                      CHOOSE i \in inner : \A j \in inner : i >= j)

\* keyword in text
In(keyword, text) ==
  \E i \in 1..(Len(text) - Len(keyword) + 1) :
     SubSeq(text, i, i + Len(keyword) - 1) = keyword

\* the replies in which process_response finds an approval keyword:
\* any(keyword in text for keyword in approval_keywords) on the stripped,
\* lower-cased text
ApprovingTexts ==
  { t \in ReplyTexts : \E k \in approval_keywords : In(Chars[k], lower(strip(Chars[t]))) }

\* A faulty variant of HasApprovalKeyword: the reply has to be a keyword and
\* nothing else.  C34 does not hold of it.
HasApprovalKeyword_whole_reply(text) ==
  \E k \in approval_keywords : lower(strip(Chars[text])) = Chars[k]

HasApprovalKeyword(text) == text \in ApprovingTexts

\* a graph task that has not been launched
NoRun ==
  [ node |-> "none", hv_pc |-> "-", cb_pc |-> "-",
    \* WorkflowState
    document_path |-> None, source |-> None, email_id |-> None,
    status |-> None, extracted_data |-> None, extraction_error |-> <<>>,
    verified_data |-> None, is_verified |-> None, verification_error |-> <<>>,
    is_valid_for_billing |-> None, validation_error |-> <<>>,
    original_slack_thread_ts |-> NoTs, slack_channel_id |-> None,
    customer_id |-> None, subscription_id |-> None, configuration_error |-> <<>>,
    error_message |-> <<>>,
    \* locals of request_and_wait_for_verification and wait_for_response
    current_data |-> None, retries |-> 0, message_ts |-> NoTs,
    last_processed_interaction_ts |-> NoTs, response_message |-> <<>>, polls |-> 0,
    \* status, as last returned by process_response, while the loop of
    \* request_and_wait_for_verification runs
    hv_status |-> "-",
    \* locals of configure_billing
    cb_customer_id |-> None, customer_args |-> <<>>, subscription_args |-> <<>>,
    \* the Slack thread this run is reading: its replies
    thread |-> {},
    \* history of the run
    hist |-> <<>>, loops |-> 0, races |-> 0, threads_opened |-> <<>>,
    exhausted |-> FALSE, timed_out |-> FALSE,
    \* a poll of the current wait came back empty while a reply was waiting
    missed |-> FALSE,
    n_extract |-> 0, n_customer |-> 0, n_subscription |-> 0, n_marked |-> 0 ]

StageOf(node, status) ==
  CASE node = "process_document" -> "Extracting"
    [] node = "human_verification" -> "AwaitingVerification"
    [] node = "validate_data_for_billing" -> "Validating"
    [] node = "inform_user_of_validation_error" -> "AwaitingRevision"
    [] node = "configure_billing" -> "Provisioning"
    [] node = "mark_document_processed" -> IF status = "success" THEN "Succeeded" ELSE "Failed"
    [] OTHER -> "End"

\* the graph moves a run to its next node
Goto(rec, node) ==
  [ rec EXCEPT !.node = node,
               !.hv_pc = IF node = "human_verification" THEN "send" ELSE "-",
               !.cb_pc = IF node = "configure_billing" THEN "customer" ELSE "-",
               !.hist = Append(@, StageOf(node, rec.status)) ]

\* invoke_graph_for_item is started with input_state
NewRun(path, source, email_id) ==
  Goto([ NoRun EXCEPT !.document_path = path, !.source = source, !.email_id = email_id ],
       "process_document")

Launched == { r \in RunIds : run[r].node # "none" }

Active == { r \in Launched : run[r].node # "END" }

ItemKey(r) == IF run[r].source = "email" THEN run[r].email_id ELSE run[r].document_path

(***************************************************************************)
(* Slack transport (custom_tools/slack_helper.py).                         *)
(***************************************************************************)
\* SlackHelper._get_slack_token: the token is fetched once and the result,
\* good or bad, is cached for every later caller
_get_slack_token(tok) ==
  IF tok # "unfetched" THEN {tok} ELSE IF env.faults THEN {"ok", "failed"} ELSE {"ok"}

\* whether a call to Slack (a tool call or a call with the token) goes through
SlackResults == IF env.faults THEN BOOLEAN ELSE {TRUE}

Message(ts, user, text) == [ts |-> ts, user |-> user, text |-> text]

\* replies of a thread a wait has not consumed yet
Pending(rec) ==
  { m \in rec.thread : m.user = "human" /\ m.ts > rec.last_processed_interaction_ts }

\* a human writes into the thread of a run that is in its verification step
HumanReply(r, text) ==
  /\ run[r].node = "human_verification"
  /\ run[r].hv_pc \in {"wait", "process"}
  /\ text \in env.texts
  /\ Cardinality(Pending(run[r])) < MaxPending
  /\ run[r].hv_pc = "process" => run[r].races < MaxRaces
  /\ slack_clock[r] <= env.max_ts
  /\ run' = [run EXCEPT ![r].thread = @ \cup {Message(slack_clock[r], "human", text)},
                         ![r].races = IF run[r].hv_pc = "process" THEN @ + 1 ELSE @]
  /\ slack_clock' = [slack_clock EXCEPT ![r] = @ + 1]
  /\ UNCHANGED <<dir_files, processed_files, document_queue, inbox, processed_emails,
                 email_queue, driver, token, bot_user_id, env,
                 orb, disk, saving>>

(***************************************************************************)
(* process_document node.                                                  *)
(***************************************************************************)
\* what document_processor.process_document can return
ExtractionResults ==
  { [error |-> <<"error">>, extracted_data |-> None] } \cup
  { [error |-> <<>>, extracted_data |-> d] : d \in DataIds }

process_document_node(r) ==
  /\ run[r].node = "process_document"
  /\ \E result \in env.extractions :
       LET rec == [run[r] EXCEPT !.n_extract = @ + 1]
           out == IF result.error # <<>>
                    THEN [rec EXCEPT !.status = "error",
                                     !.extraction_error = result.error,
                                     !.error_message = <<"Document processing failed">>]
                    ELSE [rec EXCEPT !.extracted_data = result.extracted_data,
                                     !.status = "processing"]
       IN  run' = [run EXCEPT ![r] =
                     Goto(out, IF Truthy(out.extracted_data)
                                 THEN "human_verification"
                                 ELSE "mark_document_processed")]
  /\ UNCHANGED <<dir_files, processed_files, document_queue, inbox, processed_emails,
                 email_queue, driver, slack_clock, token, bot_user_id, env,
                 orb, disk, saving>>

(***************************************************************************)
(* human_verification node: request_and_wait_for_verification.             *)
(***************************************************************************)
\* human_verification_node_async, the branch taken when the agent returns None
VerificationFailed(rec) ==
  Goto([rec EXCEPT !.is_verified = "False", !.verified_data = None,
                   !.verification_error = <<"Verification failed or timed out in Slack">>,
                   !.status = "error",
                   !.error_message = <<"Human verification via Slack failed or timed out">>,
                   !.hv_status = "-"],
       "mark_document_processed")

\* A faulty variant of VerificationSucceeded: the edge after an approval
\* leads straight to configure_billing.  C2 does not hold of it.
VerificationSucceeded_skips_validation(rec, verified_data) ==
  Goto([rec EXCEPT !.verified_data = verified_data, !.is_verified = "True",
                   !.original_slack_thread_ts = rec.message_ts,
                   !.slack_channel_id = "channel",
                   !.verification_error = <<>>, !.status = "processing",
                   !.hv_status = "-"],
       "configure_billing")

\* human_verification_node_async, the branch taken when the agent returns
\* (verified_data, original_thread_ts, channel_id)
VerificationSucceeded(rec, verified_data) ==
  Goto([rec EXCEPT !.verified_data = verified_data, !.is_verified = "True",
                   !.original_slack_thread_ts = rec.message_ts,
                   !.slack_channel_id = "channel",
                   !.verification_error = <<>>, !.status = "processing",
                   !.hv_status = "-"],
       "validate_data_for_billing")

\* A faulty variant of OpenConversation: a run that already stores a thread
\* goes on in that thread.  C5 does not hold of it.
OpenConversation_reuses_thread(rec, ts) ==
  IF rec.original_slack_thread_ts # NoTs
    THEN [rec EXCEPT !.message_ts = rec.original_slack_thread_ts,
                     !.last_processed_interaction_ts = ts,
                     !.hv_pc = "wait"]
  ELSE [rec EXCEPT !.message_ts = ts,
                   !.last_processed_interaction_ts = ts,
                   !.thread = {},
                   !.threads_opened = Append(@, ts),
                   !.hv_pc = "wait"]

\* the parent message send_verification_request posted got the timestamp ts:
\* it starts the thread of this call, and the tracker starts at it
OpenConversation(rec, ts) ==
  [rec EXCEPT !.message_ts = ts,
              !.last_processed_interaction_ts = ts,
              !.thread = {},
              !.threads_opened = Append(@, ts),
              !.hv_pc = "wait"]

\* _ensure_tool_authorization: the tool is not used unless the helper has a
\* token; tk is what _get_slack_token returned
Authorized(tk) == tk = "ok"

\* A faulty variant of PresentedData: a later round starts from the data
\* the human last changed.  C33 does not hold of it.
PresentedData_keeps_changes(rec) ==
  IF rec.current_data # None THEN rec.current_data ELSE rec.extracted_data

\* human_verification_node_async hands state["extracted_data"] to
\* request_and_wait_for_verification, which starts with current_data = extracted_data
PresentedData(rec) == rec.extracted_data

\* request_and_wait_for_verification up to the first wait: the locals are
\* initialised and send_verification_request, once _ensure_tool_authorization
\* got a token from the helper, posts a new parent message through the
\* Slack.SendMessageToChannel tool
send_verification_request(r) ==
  /\ run[r].node = "human_verification"
  /\ run[r].hv_pc = "send"
  /\ \E tk \in _get_slack_token(token), sent \in SlackResults :
       LET rec == [run[r] EXCEPT !.current_data = PresentedData(run[r]),
                                 !.retries = 0, !.message_ts = NoTs,
                                 !.last_processed_interaction_ts = NoTs,
                                 !.response_message = <<>>, !.polls = 0]
       IN  /\ token' = tk
           /\ IF Authorized(tk) /\ sent
                THEN /\ slack_clock[r] <= env.max_ts
                     /\ run' = [run EXCEPT ![r] = OpenConversation(rec, slack_clock[r])]
                     /\ slack_clock' = [slack_clock EXCEPT ![r] = @ + 1]
                ELSE /\ run' = [run EXCEPT ![r] = VerificationFailed(rec)]
                     /\ UNCHANGED slack_clock
  /\ UNCHANGED <<dir_files, processed_files, document_queue, inbox, processed_emails,
                 email_queue, driver, bot_user_id, env,
                 orb, disk, saving>>

\* A faulty variant of Qualifying: the comparison with the marker is not
\* strict.  C6 does not hold of it.
Qualifying_from_marker(replies, min_reply_ts) ==
  { m \in replies : /\ m.ts >= min_reply_ts
                    /\ ~(bot_user_id /\ m.user = "bot")
                    /\ m.text # "" }

\* A faulty variant of Qualifying: the filter does not look at min_reply_ts.
\* C26 does not hold of it.
Qualifying_any_ts(replies, min_reply_ts) ==
  { m \in replies : /\ ~(bot_user_id /\ m.user = "bot")
                    /\ m.text # "" }

\* the replies of one poll that pass the filter of wait_for_response
Qualifying(replies, min_reply_ts) ==
  { m \in replies : /\ m.ts > min_reply_ts
                    /\ ~(bot_user_id /\ m.user = "bot")
                    /\ m.text # "" }

\* A faulty variant of get_thread_replies: a call that fails returns None.
\* C36 does not hold of it.
get_thread_replies_returns_none(thread, tk, fetched) ==
  IF tk = "ok" /\ fetched THEN [none |-> FALSE, replies |-> thread]
  ELSE [none |-> TRUE, replies |-> {}]

\* SlackHelper.get_thread_replies: the replies of the thread, or the empty
\* list when there is no token or the call to Slack fails; none tells whether
\* the value is None
get_thread_replies(thread, tk, fetched) ==
  IF tk = "ok" /\ fetched THEN [none |-> FALSE, replies |-> thread]
  ELSE [none |-> FALSE, replies |-> {}]

\* one iteration of the polling loop of wait_for_response; a reply found is
\* returned to request_and_wait_for_verification, which moves its tracker;
\* on None from the helper the wait returns None at once
wait_for_response(r) ==
  /\ run[r].node = "human_verification"
  /\ run[r].hv_pc = "wait"
  /\ run[r].polls < MaxPolls
  /\ \E tk \in _get_slack_token(token), fetched \in SlackResults :
       /\ token' = tk
       /\ LET got == get_thread_replies(run[r].thread, tk, fetched)
              q == Qualifying(got.replies, run[r].last_processed_interaction_ts)
          IN  IF got.none
                THEN run' = [run EXCEPT ![r] = VerificationFailed(run[r])]
              ELSE IF q = {}
                THEN run' = [run EXCEPT ![r].polls = @ + 1,
                                        ![r].missed = @ \/ Qualifying(run[r].thread,
                                                         run[r].last_processed_interaction_ts) # {}]
                ELSE LET reply == CHOOSE m \in q : \A n \in q : m.ts <= n.ts
                     IN  run' = [run EXCEPT ![r].response_message = <<reply>>,
                                            ![r].last_processed_interaction_ts = reply.ts,
                                            ![r].hv_pc = "process",
                                            ![r].missed = FALSE]
  /\ UNCHANGED <<dir_files, processed_files, document_queue, inbox, processed_emails,
                 email_queue, driver, slack_clock, bot_user_id, env,
                 orb, disk, saving>>

\* the polling loop of wait_for_response ends without a reply
wait_timeout(r) ==
  /\ run[r].node = "human_verification"
  /\ run[r].hv_pc = "wait"
  /\ run[r].polls >= MaxPolls
  /\ run' = [run EXCEPT ![r] = VerificationFailed([run[r] EXCEPT !.timed_out = TRUE])]
  /\ UNCHANGED <<dir_files, processed_files, document_queue, inbox, processed_emails,
                 email_queue, driver, slack_clock, token, bot_user_id, env,
                 orb, disk, saving>>

\* what the change-applying model call of process_response can produce:
\* a parsed JSON object, or a failure of the call or of the parse
LLMResults ==
  { [raised |-> TRUE, updated_data |-> None, changes_applied |-> FALSE, error |-> None] :
      f \in {x \in {TRUE} : env.faults} } \cup
  { [raised |-> FALSE, updated_data |-> d, changes_applied |-> c, error |-> e] :
      d \in DataIds \cup {None}, c \in BOOLEAN, e \in {None, "unclear request"} }

\* A faulty variant of process_response: an approval hands back what the
\* change-applying model made of the approval text.  C4 does not hold of it.
process_response_approval_rewrites(response_message, original_data, llm) ==
  IF HasApprovalKeyword(response_message.text)
    THEN <<"approved", IF Truthy(llm.updated_data) THEN llm.updated_data ELSE original_data>>
  ELSE IF llm.raised THEN <<"error", None>>
  ELSE IF llm.error # None THEN <<"unclear", original_data>>
  ELSE IF llm.changes_applied /\ Truthy(llm.updated_data)
    THEN <<"changes_requested", llm.updated_data>>
  ELSE <<"unclear", original_data>>

\* A faulty variant of process_response: an error reported by the
\* change-applying model ends the interpretation with the status "error".
\* C27 does not hold of it.
process_response_error_aborts(response_message, original_data, llm) ==
  IF HasApprovalKeyword(response_message.text) THEN <<"approved", original_data>>
  ELSE IF llm.raised \/ llm.error # None THEN <<"error", None>>
  ELSE IF llm.changes_applied /\ Truthy(llm.updated_data)
    THEN <<"changes_requested", llm.updated_data>>
  ELSE <<"unclear", original_data>>

\* SlackHumanVerificationAgent.process_response: <<status, data>>
process_response(response_message, original_data, llm) ==
  IF HasApprovalKeyword(response_message.text) THEN <<"approved", original_data>>
  ELSE IF llm.raised THEN <<"error", None>>
  ELSE IF llm.error # None THEN <<"unclear", original_data>>
  ELSE IF llm.changes_applied /\ Truthy(llm.updated_data)
    THEN <<"changes_requested", llm.updated_data>>
  ELSE <<"unclear", original_data>>

\* A faulty variant of NextAttempt: once the retries are used up, the data
\* as last changed is returned as verified.  C7 does not hold of it.
NextAttempt_returns_last_data(upd) ==
  IF upd.retries < max_retries THEN upd
  ELSE VerificationSucceeded([upd EXCEPT !.exhausted = TRUE], upd.current_data)

\* A faulty variant of NextAttempt: the changed data is returned as verified
\* at once, with no further reply.  C11 does not hold of it.
NextAttempt_validates_at_once(upd) ==
  VerificationSucceeded(upd, upd.current_data)

\* the test of the loop of request_and_wait_for_verification after a change
\* was applied and retries was incremented: another wait, or the return of
\* None once the retries are used up
NextAttempt(upd) ==
  IF upd.retries < max_retries THEN upd
  ELSE VerificationFailed([upd EXCEPT !.exhausted = TRUE])

\* request_and_wait_for_verification from the reply it received to its
\* next wait or its return
\* A faulty variant of FollowedUp: a follow-up of the bot does not move
\* last_processed_interaction_ts.  C20 does not hold of it.
FollowedUp_keeps_marker(rec, status, reply_ts) ==
  [rec EXCEPT !.thread = @ \cup {Message(reply_ts, "bot", "follow-up")},
              !.hv_status = status,
              !.response_message = <<>>, !.polls = 0, !.hv_pc = "wait"]

\* A faulty variant of FollowedUp: after a follow-up the tracker stands at
\* the reply that was processed.  C35 does not hold of it.
FollowedUp_marks_reply(rec, status, reply_ts) ==
  [rec EXCEPT !.thread = @ \cup {Message(reply_ts, "bot", "follow-up")},
              !.hv_status = status,
              !.last_processed_interaction_ts = rec.response_message[1].ts,
              !.response_message = <<>>, !.polls = 0, !.hv_pc = "wait"]

\* request_and_wait_for_verification after a follow-up (the update of a
\* changes_requested status or the clarification of an unclear one) was sent
\* as a reply in the thread: its ts becomes the latest interaction and the
\* loop waits for the next reply
FollowedUp(rec, status, reply_ts) ==
  [rec EXCEPT !.thread = @ \cup {Message(reply_ts, "bot", "follow-up")},
              !.hv_status = status,
              !.last_processed_interaction_ts = reply_ts,
              !.response_message = <<>>, !.polls = 0, !.hv_pc = "wait"]

handle_response(r) ==
  /\ run[r].node = "human_verification"
  /\ run[r].hv_pc = "process"
  /\ \E llm \in LLMResults, tk \in _get_slack_token(token), sent \in SlackResults :
       LET rec == run[r]
           res == process_response(rec.response_message[1], rec.current_data, llm)
           status == res[1]
           processed_data == res[2]
           \* send_reply_in_thread is called for an update or a clarification
           sends == status \in {"changes_requested", "unclear"}
           reply_ts == IF tk = "ok" /\ sent THEN slack_clock[r] ELSE NoTs
           followed == FollowedUp(rec, status, reply_ts)
       IN  /\ token' = IF sends THEN tk ELSE token
           /\ ~sends => (tk \in {token, "ok"} /\ sent)
           /\ IF status = "approved"
                THEN /\ run' = [run EXCEPT ![r] =
                          VerificationSucceeded(rec,
                            IF Truthy(processed_data) THEN processed_data ELSE rec.current_data)]
                     /\ UNCHANGED slack_clock
              ELSE IF status = "changes_requested"
                THEN IF reply_ts = NoTs
                       THEN /\ run' = [run EXCEPT ![r] =
                                 VerificationFailed([rec EXCEPT !.current_data = processed_data])]
                            /\ UNCHANGED slack_clock
                       ELSE /\ slack_clock[r] <= env.max_ts
                            /\ slack_clock' = [slack_clock EXCEPT ![r] = @ + 1]
                            /\ LET upd == [followed EXCEPT !.current_data = processed_data,
                                                           !.retries = @ + 1]
                               IN  run' = [run EXCEPT ![r] = NextAttempt(upd)]
              ELSE IF status = "unclear"
                THEN IF reply_ts = NoTs
                       THEN /\ run' = [run EXCEPT ![r] = VerificationFailed(rec)]
                            /\ UNCHANGED slack_clock
                       ELSE /\ slack_clock[r] <= env.max_ts
                            /\ slack_clock' = [slack_clock EXCEPT ![r] = @ + 1]
                            /\ run' = [run EXCEPT ![r] = followed]
              ELSE /\ run' = [run EXCEPT ![r] = VerificationFailed(rec)]
                   /\ UNCHANGED slack_clock
  /\ UNCHANGED <<dir_files, processed_files, document_queue, inbox, processed_emails,
                 email_queue, driver, bot_user_id, env,
                 orb, disk, saving>>

(***************************************************************************)
(* validate_data_for_billing node.                                         *)
(***************************************************************************)
\* A faulty variant of AfterValidation: the edge leads to configure_billing
\* whatever the validation gave.  C25 does not hold of it.
AfterValidation_always_configures(out) == "configure_billing"

\* the conditional edge after validate_data_for_billing
AfterValidation(out) ==
  IF out.is_valid_for_billing = "True" THEN "configure_billing"
  ELSE "inform_user_of_validation_error"

validate_data_node(r) ==
  /\ run[r].node = "validate_data_for_billing"
  /\ LET rec == run[r]
         out == IF ~Truthy(rec.verified_data)
                  THEN [rec EXCEPT !.is_valid_for_billing = "False",
                                   !.validation_error = <<"No verified data available for validation">>,
                                   !.status = "error",
                                   !.error_message = <<"Validation skipped: No verified data.">>]
                ELSE LET v == validate_data(DataTable[rec.verified_data])
                     IN  IF v[1]
                           THEN [rec EXCEPT !.is_valid_for_billing = "True",
                                            !.validation_error = <<>>,
                                            !.status = "processing"]
                           ELSE [rec EXCEPT !.is_valid_for_billing = "False",
                                            !.validation_error = v[2],
                                            !.status = "error",
                                            !.error_message = <<"Data validation failed">>]
     IN  run' = [run EXCEPT ![r] = Goto(out, AfterValidation(out))]
  /\ UNCHANGED <<dir_files, processed_files, document_queue, inbox, processed_emails,
                 email_queue, driver, slack_clock, token, bot_user_id, env,
                 orb, disk, saving>>

(***************************************************************************)
(* inform_user_of_validation_error node; its edge always leads back to     *)
(* human_verification.                                                     *)
(***************************************************************************)
\* A faulty variant of ResetForReverification: the verified data and the
\* verification flag are kept.  C9 does not hold of it.
ResetForReverification_keeps_data(rec) ==
  [rec EXCEPT !.is_valid_for_billing = None,
              !.status = "processing", !.validation_error = <<>>]

\* the state inform_user_of_validation_error_node_async returns after the
\* message was sent: the verification and validation results are cleared
ResetForReverification(rec) ==
  [rec EXCEPT !.verified_data = None, !.is_verified = None,
              !.is_valid_for_billing = None,
              !.status = "processing", !.validation_error = <<>>]

inform_user_of_validation_error_node(r) ==
  /\ run[r].node = "inform_user_of_validation_error"
  /\ run[r].loops < env.max_loops
  /\ \E tk \in _get_slack_token(token), sent \in SlackResults :
       LET rec == [run[r] EXCEPT !.loops = @ + 1]
           has_thread == rec.original_slack_thread_ts # NoTs /\ rec.slack_channel_id # None
       IN  IF ~has_thread
             THEN /\ run' = [run EXCEPT ![r] =
                       Goto([rec EXCEPT !.status = "error",
                                        !.error_message = <<"Internal error: Missing Slack thread details">>],
                            "human_verification")]
                  /\ UNCHANGED <<slack_clock, token>>
           ELSE IF ~(tk = "ok" /\ sent)
             THEN /\ run' = [run EXCEPT ![r] =
                       Goto([rec EXCEPT !.status = "error",
                                        !.error_message = <<"Failed to send validation error to Slack.">>],
                            "human_verification")]
                  /\ token' = tk
                  /\ UNCHANGED slack_clock
           ELSE /\ slack_clock[r] <= env.max_ts
                /\ run' = [run EXCEPT ![r] =
                     Goto(ResetForReverification(
                            [rec EXCEPT !.thread = @ \cup
                               {Message(slack_clock[r], "bot", "validation failed")}]),
                          "human_verification")]
                /\ token' = tk
                /\ slack_clock' = [slack_clock EXCEPT ![r] = @ + 1]
  /\ UNCHANGED <<dir_files, processed_files, document_queue, inbox, processed_emails,
                 email_queue, driver, bot_user_id, env,
                 orb, disk, saving>>

(***************************************************************************)
(* configure_billing node: BillingConfiguratorAgent.configure_billing with *)
(* its two remote calls.                                                   *)
(***************************************************************************)
\* int(user_count) on the seat texts of the model
ToInt(s) == CASE s = "3" -> 3 [] OTHER -> 1

user_count_keys ==
  <<"user_count", "numusers", "number_of_users", "number_of_seats/users", "seats", "users">>

\* A faulty variant of BillingFailed: after a failed configuration the run
\* enters configure_billing again.  C31 does not hold of it.
BillingFailed_retries(rec, err) ==
  Goto([rec EXCEPT !.status = "error", !.configuration_error = err,
                   !.error_message = <<"Billing configuration failed">>],
       "configure_billing")

\* configure_billing_node_async when configure_billing reports an error
BillingFailed(rec, err) ==
  Goto([rec EXCEPT !.status = "error", !.configuration_error = err,
                   !.error_message = <<"Billing configuration failed">>],
       "mark_document_processed")

\* what the worker can answer to CreateCustomer / CreateSubscription:
\* a failure, a success without an id, or a success with an id
WorkerResults == IF env.faults THEN {"failed", "no id", "id"} ELSE {"id"}

\* the ids the worker can give to a new customer
CustomerIds == {"cus_1", "cus_2"}

\* A faulty variant of CustomerOutcome: a response without an id does not
\* stop the configuration.  C17 does not hold of it.
CustomerOutcome_ignores_missing_id(called, result, id) ==
  CASE result = "failed" -> BillingFailed(called, <<"CreateCustomer tool failed">>)
    [] result = "no id" -> [called EXCEPT !.cb_pc = "subscription"]
    [] OTHER -> [called EXCEPT !.cb_customer_id = id, !.cb_pc = "subscription"]

\* configure_billing after the CreateCustomer call: a response that is not a
\* success or carries no id raises, which ends the configuration; otherwise
\* customer_id holds the id and CreateSubscription comes next
CustomerOutcome(called, result, id) ==
  CASE result = "failed" -> BillingFailed(called, <<"CreateCustomer tool failed">>)
    [] result = "no id" ->
         BillingFailed(called, <<"Failed to get customer ID from tool response.">>)
    [] OTHER -> [called EXCEPT !.cb_customer_id = id, !.cb_pc = "subscription"]

\* configure_billing up to and including the CreateCustomer call
configure_billing_customer(r) ==
  /\ run[r].node = "configure_billing"
  /\ run[r].cb_pc = "customer"
  /\ LET rec == run[r]
     IN  IF ~Truthy(rec.verified_data)
           THEN run' = [run EXCEPT ![r] = BillingFailed(rec, <<"No verified data provided">>)]
         ELSE LET args == billing_args(DataTable[rec.verified_data])
              IN  IF args.error # <<>>
                    THEN run' = [run EXCEPT ![r] = BillingFailed(rec, args.error)]
                  ELSE \E result \in WorkerResults, id \in CustomerIds :
                         LET called == [rec EXCEPT !.n_customer = @ + 1,
                                         !.customer_args = <<[name |-> args.name, email |-> args.email]>>]
                         IN  run' = [run EXCEPT ![r] = CustomerOutcome(called, result, id)]
  /\ UNCHANGED <<dir_files, processed_files, document_queue, inbox, processed_emails,
                 email_queue, driver, slack_clock, token, bot_user_id, env,
                 orb, disk, saving>>

\* configure_billing from the CreateSubscription call to the return of the
\* node
configure_billing_subscription(r) ==
  /\ run[r].node = "configure_billing"
  /\ run[r].cb_pc = "subscription"
  /\ \E result \in WorkerResults :
       LET rec == run[r]
           data == DataTable[rec.verified_data]
           args == billing_args(data)
           seats == GetFirst(data_lower(data), user_count_keys)
           called == [rec EXCEPT !.n_subscription = @ + 1,
                       !.subscription_args =
                          <<[customer_id |-> rec.cb_customer_id, plan_id |-> args.plan_id,
                             user_count |-> IF seats = None THEN 1 ELSE ToInt(seats)]>>]
       IN  run' = [run EXCEPT ![r] =
             CASE result = "failed" ->
                    BillingFailed(called, <<"CreateSubscription tool failed">>)
               [] result = "no id" ->
                    BillingFailed(called, <<"Failed to get subscription ID from tool response.">>)
               [] OTHER ->
                    Goto([called EXCEPT !.customer_id = rec.cb_customer_id,
                                        !.subscription_id = "sub_1",
                                        !.status = "success"],
                         "mark_document_processed")]
  /\ UNCHANGED <<dir_files, processed_files, document_queue, inbox, processed_emails,
                 email_queue, driver, slack_clock, token, bot_user_id, env,
                 orb, disk, saving>>

(***************************************************************************)
(* mark_document_processed node, then END.                                 *)
(***************************************************************************)
\* A faulty variant of ShouldMark: only a success is written to the ledger.
\* C10 does not hold of it.
ShouldMark_success_only(rec) == rec.status = "success"

\* the ledger is written for a run that ended in success or in error
ShouldMark(rec) == rec.status \in {"success", "error"}

mark_document_processed_node(r) ==
  /\ run[r].node = "mark_document_processed"
  /\ saving[r].pc = "idle"
  /\ LET rec == run[r]
         marks == ShouldMark(rec)
         marks_file == marks /\ rec.source = "file"
         marks_email == marks /\ rec.source = "email" /\ rec.email_id # None
     IN  /\ processed_files' = IF marks_file THEN processed_files \cup {rec.document_path}
                               ELSE processed_files
         /\ processed_emails' = IF marks_email THEN processed_emails \cup {rec.email_id}
                                ELSE processed_emails
         /\ disk' = [disk EXCEPT !.files = IF marks_file THEN Content(processed_files') ELSE @,
                                 !.emails = IF marks_email THEN Content(processed_emails') ELSE @]
         /\ run' = [run EXCEPT ![r] =
               Goto([rec EXCEPT !.status = "completed",
                                !.n_marked = IF marks_file \/ marks_email THEN @ + 1 ELSE @],
                    "END")]
  /\ UNCHANGED <<dir_files, document_queue, inbox, email_queue, driver, slack_clock,
                 token, bot_user_id, env,
                 orb, saving>>

(***************************************************************************)
(* mark_document_processed_node statement by statement.  The graph runs    *)
(* the node in a worker thread, so the statements of two tasks that mark   *)
(* at the same time interleave: the add to the set, the open of the log    *)
(* with mode 'w', the list() of the set handed to json.dump, and the       *)
(* write of the text when the with block closes the file.                  *)
(***************************************************************************)
\* which log a task writes, if any
LogOf(rec) ==
  IF ~ShouldMark(rec) THEN "none"
  ELSE IF rec.source = "file" THEN "files"
  ELSE IF rec.source = "email" /\ rec.email_id # None THEN "emails"
  ELSE "none"

\* the in-memory set behind a log
SetOf(log) == IF log = "files" THEN processed_files ELSE processed_emails

\* self.processed_files.add(file_path), self.processed_emails.add(email_id);
\* a task that has nothing to mark returns at once
mark_add(r) ==
  /\ run[r].node = "mark_document_processed"
  /\ saving[r].pc = "idle"
  /\ LET rec == run[r]
         log == LogOf(rec)
     IN  /\ processed_files' = IF log = "files" THEN processed_files \cup {rec.document_path}
                               ELSE processed_files
         /\ processed_emails' = IF log = "emails" THEN processed_emails \cup {rec.email_id}
                                ELSE processed_emails
         /\ IF log = "none"
              THEN /\ run' = [run EXCEPT ![r] = Goto([rec EXCEPT !.status = "completed"], "END")]
                   /\ UNCHANGED saving
              ELSE /\ saving' = [saving EXCEPT ![r].pc = "added"]
                   /\ UNCHANGED run
  /\ UNCHANGED <<dir_files, document_queue, inbox, email_queue, driver, slack_clock,
                 token, bot_user_id, env, orb, disk>>

\* open(..., 'w'): the log is truncated
save_open(r) ==
  /\ saving[r].pc = "added"
  /\ disk' = [disk EXCEPT ![LogOf(run[r])] = Content({})]
  /\ saving' = [saving EXCEPT ![r].pc = "opened"]
  /\ UNCHANGED <<dir_files, processed_files, document_queue, inbox, processed_emails,
                 email_queue, driver, run, slack_clock, token, bot_user_id, env, orb>>

\* list(self.processed_files), list(self.processed_emails)
save_list(r) ==
  /\ saving[r].pc = "opened"
  /\ saving' = [saving EXCEPT ![r] = [pc |-> "listed", listed |-> SetOf(LogOf(run[r]))]]
  /\ UNCHANGED <<dir_files, processed_files, document_queue, inbox, processed_emails,
                 email_queue, driver, run, slack_clock, token, bot_user_id, env, orb, disk>>

\* the with block ends: the text reaches the file, and the node returns
save_close(r) ==
  /\ saving[r].pc = "listed"
  /\ disk' = [disk EXCEPT ![LogOf(run[r])] = Overwrite(@, saving[r].listed)]
  /\ saving' = [saving EXCEPT ![r] = NotSaving]
  /\ run' = [run EXCEPT ![r] =
        Goto([run[r] EXCEPT !.status = "completed", !.n_marked = @ + 1], "END")]
  /\ UNCHANGED <<dir_files, processed_files, document_queue, inbox, processed_emails,
                 email_queue, driver, slack_clock, token, bot_user_id, env, orb>>

(***************************************************************************)
(* File watcher (agents/document_watcher_agent.py).                        *)
(***************************************************************************)
ObserverRunning == driver.pc = "loop"

\* a file appears in the documents directory: DocumentEventHandler.on_created
on_created(p) ==
  /\ p \notin dir_files
  /\ dir_files' = dir_files \cup {p}
  /\ IF ObserverRunning /\ p \notin processed_files
       THEN /\ Len(document_queue) < MaxQueue
            /\ document_queue' = Append(document_queue, p)
       ELSE UNCHANGED document_queue
  /\ UNCHANGED <<processed_files, inbox, processed_emails, email_queue, driver, run,
                 slack_clock, token, bot_user_id, env,
                 orb, disk, saving>>

\* a file of the directory is written again: DocumentEventHandler.on_modified
on_modified(p) ==
  /\ p \in dir_files
  /\ ObserverRunning
  /\ IF p \in processed_files
       THEN /\ Len(document_queue) < MaxQueue
            /\ processed_files' = processed_files \ {p}
            /\ document_queue' = Append(document_queue, p)
       ELSE UNCHANGED <<processed_files, document_queue>>
  /\ UNCHANGED <<dir_files, inbox, processed_emails, email_queue, driver, run,
                 slack_clock, token, bot_user_id, env,
                 orb, disk, saving>>

\* a file is removed from the directory; the handler does not react
FileDeleted(p) ==
  /\ p \in dir_files
  /\ dir_files' = dir_files \ {p}
  /\ UNCHANGED <<processed_files, document_queue, inbox, processed_emails, email_queue,
                 driver, run, slack_clock, token, bot_user_id, env,
                 orb, disk, saving>>

\* an email arrives in the mailbox
EmailArrives(e) ==
  /\ e \notin inbox
  /\ inbox' = inbox \cup {e}
  /\ UNCHANGED <<dir_files, processed_files, document_queue, processed_emails, email_queue,
                 driver, run, slack_clock, token, bot_user_id, env,
                 orb, disk, saving>>

\* all orderings of a set, as sequences without repetition
Orderings(S) ==
  { q \in UNION { [1..n -> S] : n \in {Cardinality(S)} } :
      \A i, j \in DOMAIN q : i # j => q[i] # q[j] }

(***************************************************************************)
(* Driver (run_workflow in langgraph_orchestrator.py).                     *)
(***************************************************************************)
\* run_workflow before its loop: DocumentWatcherAgent.start queues the
\* existing unprocessed files, then the observer starts
start ==
  /\ driver.pc = "start"
  /\ \E q \in Orderings(dir_files \ processed_files) :
       document_queue' = document_queue \o q
  /\ driver' = [driver EXCEPT !.pc = "loop"]
  /\ UNCHANGED <<dir_files, processed_files, inbox, processed_emails, email_queue, run,
                 slack_clock, token, bot_user_id, env,
                 orb, disk, saving>>

FreeSlots == { r \in RunIds : run[r].node = "none" }

NextSlot == CHOOSE r \in FreeSlots : \A q \in FreeSlots : r <= q

\* asyncio.create_task(invoke_graph_for_item(graph, input_state, config))
Launch(rec) ==
  /\ FreeSlots # {}
  /\ run' = [run EXCEPT ![NextSlot] = rec]

\* the time since the last email check after a tick that slept dt: the tick
\* takes at least its sleep; the timer is kept up to the email interval
Elapse(since, dt) ==
  IF since + dt + env.tick_extra >= EmailInterval THEN EmailInterval
  ELSE since + dt + env.tick_extra

EmailDocument(e) == "email_e1.txt"

\* A faulty variant of CanTick: the loop awaits the tasks it created before
\* its next iteration.  C15 does not hold of it.
CanTick_awaits_tasks == driver.pc = "loop" /\ Active = {}

\* the loop of run_workflow takes its next iteration as soon as its sleep
\* is over: the tasks it created are not awaited
CanTick == driver.pc = "loop"

\* A faulty variant of should_check_email: the mailbox is checked on every
\* tick that found no document.  C22 does not hold of it.
should_check_email_every_tick(since) == since >= 0

\* should_check_email = (current_time - last_email_check >= 60)
should_check_email(since) == since >= EmailInterval

\* A faulty variant of TurnsToEmail: a mailbox check that is due goes before
\* a queued document.  C37 does not hold of it.
TurnsToEmail_when_due(queue, since) == queue = <<>> \/ since >= EmailInterval

\* the else branch of "if document_path": the mailbox is considered only on
\* an iteration whose get_next_document returned no document
TurnsToEmail(queue, since) == queue = <<>>

\* one iteration of the loop of run_workflow
driver_tick ==
  /\ CanTick
  /\ IF ~TurnsToEmail(document_queue, driver.since_email_check)
       THEN \* 1. a document is waiting: launch its graph task
            /\ document_queue' = Tail(document_queue)
            /\ Launch(NewRun(Head(document_queue), "file", None))
            /\ driver' = [driver EXCEPT !.since_email_check = Elapse(@, LaunchSleep)]
            /\ UNCHANGED <<email_queue, processed_emails>>
     ELSE IF should_check_email(driver.since_email_check)
       THEN \* 2. no document and the email check is due: get_next_email
            /\ UNCHANGED document_queue
            /\ \E found \in UNION { Orderings(S) : S \in SUBSET (inbox \ processed_emails) } :
                 LET q == IF email_queue # <<>> THEN email_queue ELSE found
                 IN  IF q = <<>>
                       THEN /\ email_queue' = q
                            /\ driver' = [driver EXCEPT !.since_email_check = Elapse(0, IdleSleep)]
                            /\ UNCHANGED <<processed_emails, run>>
                     ELSE /\ email_queue' = Tail(q)
                          /\ processed_emails' = processed_emails \cup {Head(q)}
                          /\ \E processed \in BOOLEAN :
                               IF processed
                                 THEN /\ Launch(NewRun(EmailDocument(Head(q)), "email", Head(q)))
                                      /\ driver' = [driver EXCEPT
                                           !.since_email_check = Elapse(0, LaunchSleep)]
                                 ELSE /\ driver' = [driver EXCEPT
                                           !.since_email_check = Elapse(0, IdleSleep)]
                                      /\ UNCHANGED run
     ELSE \* 3. nothing to do on this tick
          /\ driver' = [driver EXCEPT !.since_email_check = Elapse(@, IdleSleep)]
          /\ UNCHANGED <<document_queue, email_queue, processed_emails, run>>
  /\ UNCHANGED <<dir_files, processed_files, inbox, slack_clock, token, bot_user_id, env,
                 orb, disk, saving>>

(***************************************************************************)
(* The system: the state after the module-level agents are constructed,    *)
(* on a first start with empty ledgers.                                    *)
(***************************************************************************)
Init ==
  /\ dir_files \in SUBSET Paths
  /\ processed_files = {}
  /\ document_queue = <<>>
  /\ inbox = {}
  /\ processed_emails = {}
  /\ email_queue = <<>>
  /\ driver = [pc |-> "start", since_email_check |-> EmailInterval]
  /\ run = [r \in RunIds |-> NoRun]
  /\ slack_clock = [r \in RunIds |-> 1]
  /\ token = "unfetched"
  /\ orb = NoCall
  /\ disk = NoLogs
  /\ saving = [r \in RunIds |-> NotSaving]
  /\ bot_user_id \in BOOLEAN
  /\ env = [texts |-> {"approve"}, faults |-> FALSE,
            extractions |-> { x \in ExtractionResults : x.extracted_data \in {"company", "noemail"} },
            max_ts |-> SystemTs, max_loops |-> MaxLoops, tick_extra |-> EmailInterval]

RunStep(r) ==
  \/ process_document_node(r)
  \/ send_verification_request(r)
  \/ wait_for_response(r)
  \/ wait_timeout(r)
  \/ handle_response(r)
  \/ validate_data_node(r)
  \/ inform_user_of_validation_error_node(r)
  \/ configure_billing_customer(r)
  \/ configure_billing_subscription(r)
  \/ mark_document_processed_node(r)

Next ==
  \/ start
  \/ driver_tick
  \/ \E p \in Paths : on_created(p)
  \/ \E p \in Paths : on_modified(p)
  \/ \E p \in Paths : FileDeleted(p)
  \/ \E e \in EmailIds : EmailArrives(e)
  \/ \E r \in RunIds : RunStep(r)
  \/ \E r \in RunIds, text \in Texts : HumanReply(r, text)

Spec == Init /\ [][Next]_vars

(***************************************************************************)
(* One workflow run on its own: the state right after the driver launched  *)
(* the first graph task, for a file or for an email, and the steps of that *)
(* task and of the human in its thread.                                    *)
(***************************************************************************)
FirstRunLaunched ==
  /\ document_queue = <<>>
  /\ email_queue = <<>>
  /\ processed_files = {}
  /\ slack_clock = [r \in RunIds |-> 1]
  /\ token = "unfetched"
  /\ orb = NoCall
  /\ disk = NoLogs
  /\ saving = [r \in RunIds |-> NotSaving]
  /\ bot_user_id \in BOOLEAN
  /\ \/ /\ dir_files = {"a.pdf"}
        /\ inbox = {}
        /\ processed_emails = {}
        /\ driver = [pc |-> "loop", since_email_check |-> EmailInterval]
        /\ run = [r \in RunIds |-> IF r = 1 THEN NewRun("a.pdf", "file", None) ELSE NoRun]
     \/ /\ dir_files = {}
        /\ inbox = {"e1"}
        /\ processed_emails = {"e1"}
        /\ driver = [pc |-> "loop", since_email_check |-> LaunchSleep]
        /\ run = [r \in RunIds |-> IF r = 1 THEN NewRun(EmailDocument("e1"), "email", "e1")
                                   ELSE NoRun]

EngineInit ==
  /\ FirstRunLaunched
  /\ env = [texts |-> Texts, faults |-> TRUE, extractions |-> ExtractionResults,
            max_ts |-> MaxTs, max_loops |-> MaxLoops, tick_extra |-> 0]

EngineNext ==
  \/ RunStep(1)
  \/ \E text \in Texts : HumanReply(1, text)

EngineSpec == EngineInit /\ [][EngineNext]_vars

(***************************************************************************)
(* One workflow run with a human who answers every request with an         *)
(* approval and nothing else.                                              *)
(***************************************************************************)
ApproverInit ==
  /\ FirstRunLaunched
  /\ env = [texts |-> {"approve"}, faults |-> TRUE, extractions |-> ExtractionResults,
            max_ts |-> ApproverTs, max_loops |-> ApproverLoops, tick_extra |-> 0]

ApproverSpec == ApproverInit /\ [][EngineNext]_vars

(***************************************************************************)
(* The whole system with graph tasks that can raise: remote calls fail,    *)
(* and an exception can escape from the graph at any node of a task.       *)
(***************************************************************************)
\* A faulty variant of graph_exception: the exception leaves the task and
\* ends the loop of run_workflow.  C16 does not hold of it.
graph_exception_escapes(r) ==
  /\ run[r].node \notin {"none", "END"}
  /\ driver' = [driver EXCEPT !.pc = "stopped"]
  /\ run' = [run EXCEPT ![r] = Goto(@, "END")]
  /\ UNCHANGED <<dir_files, processed_files, document_queue, inbox, processed_emails,
                 email_queue, slack_clock, token, bot_user_id, env,
                 orb, disk, saving>>

\* invoke_graph_for_item, except branch: graph.astream raised at some node;
\* the task logs it, calls mark_document_processed_node on a state rebuilt
\* from input_state with status "error", and ends
graph_exception(r) ==
  /\ run[r].node \notin {"none", "END"}
  /\ LET rec == run[r]
         marks_file == rec.source = "file"
         marks_email == rec.source = "email" /\ rec.email_id # None
     IN  /\ processed_files' = IF marks_file THEN processed_files \cup {rec.document_path}
                               ELSE processed_files
         /\ processed_emails' = IF marks_email THEN processed_emails \cup {rec.email_id}
                                ELSE processed_emails
         /\ disk' = [disk EXCEPT !.files = IF marks_file THEN Content(processed_files') ELSE @,
                                 !.emails = IF marks_email THEN Content(processed_emails') ELSE @]
         /\ run' = [run EXCEPT ![r] =
               Goto([rec EXCEPT !.n_marked = IF marks_file \/ marks_email THEN @ + 1 ELSE @],
                    "END")]
  /\ UNCHANGED <<dir_files, document_queue, inbox, email_queue, driver, slack_clock,
                 token, bot_user_id, env,
                 orb, saving>>

IsolationInit ==
  /\ dir_files \in SUBSET Paths
  /\ processed_files = {}
  /\ document_queue = <<>>
  /\ inbox = {}
  /\ processed_emails = {}
  /\ email_queue = <<>>
  /\ driver = [pc |-> "start", since_email_check |-> EmailInterval]
  /\ run = [r \in RunIds |-> NoRun]
  /\ slack_clock = [r \in RunIds |-> 1]
  /\ token = "unfetched"
  /\ orb = NoCall
  /\ disk = NoLogs
  /\ saving = [r \in RunIds |-> NotSaving]
  /\ bot_user_id = TRUE
  /\ env = [texts |-> {"approve"}, faults |-> TRUE,
            extractions |-> { x \in ExtractionResults : x.extracted_data \in {"company", "badplan"} },
            max_ts |-> IsolationTs, max_loops |-> MaxLoops, tick_extra |-> EmailInterval]

IsolationNext ==
  \/ Next
  \/ \E r \in RunIds : graph_exception(r)

IsolationSpec == IsolationInit /\ [][IsolationNext]_vars

(***************************************************************************)
(* One workflow run with a human who writes any of ReplyTexts: approvals,  *)
(* requests, and replies that are both.                                    *)
(***************************************************************************)
ReplyInit ==
  /\ FirstRunLaunched
  /\ env = [texts |-> ReplyTexts, faults |-> FALSE,
            extractions |-> { [error |-> <<>>, extracted_data |-> "company"] },
            max_ts |-> ReplyTs, max_loops |-> MaxLoops, tick_extra |-> 0]

ReplyNext ==
  \/ RunStep(1)
  \/ \E text \in ReplyTexts : HumanReply(1, text)

ReplySpec == ReplyInit /\ [][ReplyNext]_vars

(***************************************************************************)
(* Two graph tasks that reached mark_document_processed at the same time,  *)
(* each for its own file or email, with the statements of the node         *)
(* interleaved as the worker threads of the graph interleave them.         *)
(***************************************************************************)
\* the items of the two tasks
LedgerKeys == [file |-> <<"a.pdf", "b.pdf">>, email |-> <<"e1", "e2">>]

\* the state a task has when the graph routes it to mark_document_processed
AtMark(r, source, status) ==
  Goto([ NoRun EXCEPT !.document_path = IF source = "file" THEN LedgerKeys.file[r]
                                         ELSE EmailDocument(LedgerKeys.email[r]),
                      !.source = source,
                      !.email_id = IF source = "email" THEN LedgerKeys.email[r] ELSE None,
                      !.status = status ],
       "mark_document_processed")

LedgerInit ==
  /\ dir_files = {}
  /\ processed_files = {}
  /\ document_queue = <<>>
  /\ inbox = {}
  /\ processed_emails = {}
  /\ email_queue = <<>>
  /\ driver = [pc |-> "loop", since_email_check |-> 0]
  /\ run \in { [r \in RunIds |-> AtMark(r, src[r], st[r])] :
                 src \in [RunIds -> {"file", "email"}],
                 st \in [RunIds -> {"success", "error", "processing"}] }
  /\ slack_clock = [r \in RunIds |-> 1]
  /\ token = "unfetched"
  /\ orb = NoCall
  /\ disk = NoLogs
  /\ saving = [r \in RunIds |-> NotSaving]
  /\ bot_user_id = TRUE
  /\ env = [texts |-> {"approve"}, faults |-> FALSE, extractions |-> ExtractionResults,
            max_ts |-> SystemTs, max_loops |-> MaxLoops, tick_extra |-> 0]

LedgerNext ==
  \E r \in RunIds :
     \/ mark_add(r)
     \/ save_open(r)
     \/ save_list(r)
     \/ save_close(r)

LedgerSpec == LedgerInit /\ [][LedgerNext]_vars

(***************************************************************************)
(* One workflow run whose extraction can return any mapping of DataTable   *)
(* and whose human approves: validate_data on every mapping.               *)
(***************************************************************************)
ValidationInit ==
  /\ FirstRunLaunched
  /\ env = [texts |-> {"approve"}, faults |-> FALSE,
            extractions |-> { [error |-> <<>>, extracted_data |-> d] : d \in ValidationIds },
            max_ts |-> ValidationTs, max_loops |-> MaxLoops, tick_extra |-> 0]

ValidationSpec == ValidationInit /\ [][EngineNext]_vars

(***************************************************************************)
(* The driver and its two sources with the clock of the email check: a     *)
(* tick takes its sleep and no more, and every extraction fails, so that   *)
(* a task is over after two steps.                                         *)
(***************************************************************************)
CadenceInit ==
  /\ dir_files \in SUBSET Paths
  /\ processed_files = {}
  /\ document_queue = <<>>
  /\ inbox = {}
  /\ processed_emails = {}
  /\ email_queue = <<>>
  /\ driver = [pc |-> "start", since_email_check |-> EmailInterval]
  /\ run = [r \in RunIds |-> NoRun]
  /\ slack_clock = [r \in RunIds |-> 1]
  /\ token = "unfetched"
  /\ orb = NoCall
  /\ disk = NoLogs
  /\ saving = [r \in RunIds |-> NotSaving]
  /\ bot_user_id = TRUE
  /\ env = [texts |-> {"approve"}, faults |-> FALSE,
            extractions |-> { x \in ExtractionResults : x.error # <<>> },
            max_ts |-> SystemTs, max_loops |-> MaxLoops, tick_extra |-> 0]

CadenceNext ==
  \/ start
  \/ driver_tick
  \/ \E p \in Paths : on_created(p)
  \/ \E p \in Paths : on_modified(p)
  \/ \E p \in Paths : FileDeleted(p)
  \/ \E e \in EmailIds : EmailArrives(e)
  \/ \E r \in RunIds : process_document_node(r)
  \/ \E r \in RunIds : mark_document_processed_node(r)

CadenceSpec == CadenceInit /\ [][CadenceNext]_vars

(***************************************************************************)
(* The tools of the Orb toolkit on their own: each call of a tool makes    *)
(* one HTTP request and returns what _make_orb_request returns.            *)
(***************************************************************************)
orb_tool_call ==
  /\ \E tool \in OrbTools, outcome \in HttpOutcomes :
       orb' = [tool |-> tool, request |-> OrbRequest(tool), outcome |-> outcome,
               result |-> _make_orb_request(outcome)]
  /\ UNCHANGED <<dir_files, processed_files, document_queue, inbox, processed_emails,
                 email_queue, driver, run, slack_clock, token, bot_user_id, env,
                 disk, saving>>

OrbInit ==
  /\ dir_files = {}
  /\ processed_files = {}
  /\ document_queue = <<>>
  /\ inbox = {}
  /\ processed_emails = {}
  /\ email_queue = <<>>
  /\ driver = [pc |-> "start", since_email_check |-> EmailInterval]
  /\ run = [r \in RunIds |-> NoRun]
  /\ slack_clock = [r \in RunIds |-> 1]
  /\ token = "unfetched"
  /\ orb = NoCall
  /\ disk = NoLogs
  /\ saving = [r \in RunIds |-> NotSaving]
  /\ bot_user_id = TRUE
  /\ env = [texts |-> {"approve"}, faults |-> TRUE, extractions |-> ExtractionResults,
            max_ts |-> SystemTs, max_loops |-> MaxLoops, tick_extra |-> 0]

OrbSpec == OrbInit /\ [][orb_tool_call]_vars

(***************************************************************************)
(* Properties.                                                             *)
(***************************************************************************)
Range(q) == { q[i] : i \in DOMAIN q }

\* C1 (as stated): at most one run is active for an item_key at any time;
\* a second discovery of an item before its ledger entry is written
\* launches no second run.  Checked under Spec.
C1_OneActiveRunPerItem ==
  \A r1, r2 \in Active : ItemKey(r1) = ItemKey(r2) => r1 = r2

\* the stage order of a run that succeeded: Extracting, AwaitingVerification,
\* Validating, any number of AwaitingRevision, AwaitingVerification,
\* Validating, then Provisioning once and Succeeded
SuccessOrder(h) ==
  /\ Len(h) >= 5
  /\ h[1] = "Extracting" /\ h[2] = "AwaitingVerification" /\ h[3] = "Validating"
  /\ \A i \in 3..(Len(h) - 1) :
       <<h[i], h[i + 1]>> \in { <<"Validating", "AwaitingRevision">>,
                                <<"AwaitingRevision", "AwaitingVerification">>,
                                <<"AwaitingVerification", "Validating">>,
                                <<"Validating", "Provisioning">>,
                                <<"Provisioning", "Succeeded">>,
                                <<"Succeeded", "End">> }
  /\ Cardinality({ i \in DOMAIN h : h[i] = "Provisioning" }) = 1

\* C2: a run that reaches Succeeded went through Extracting,
\* AwaitingVerification, Validating, Provisioning and Succeeded in that
\* order, its only repetition is the loop AwaitingVerification, Validating,
\* AwaitingRevision, AwaitingVerification, and it was in Provisioning once.
\* Checked under EngineSpec.
C2_SuccessfulRunOrder ==
  \A r \in Launched : "Succeeded" \in Range(run[r].hist) => SuccessOrder(run[r].hist)

\* a run succeeded after one validation-failure loop
C2_Witness ==
  /\ run[1].node = "END"
  /\ "Succeeded" \in Range(run[1].hist)
  /\ "AwaitingRevision" \in Range(run[1].hist)

\* C3 (as stated): the validation-failure loop-backs of a run (validation
\* fails, a revision is requested, verification starts again) never exceed
\* max_retries.  Checked under ApproverSpec.
C3_LoopsWithinMaxRetries ==
  \A r \in Launched : run[r].loops <= max_retries

\* C4: when the human approves with no change applied before in that
\* verification round, the verified_data handed to validation equals the
\* extracted_data.  Checked under EngineSpec.
C4_ApprovalKeepsExtractedData ==
  \A r \in Launched :
    (run[r].node = "validate_data_for_billing" /\ run[r].retries = 0)
      => /\ run[r].is_verified = "True"
         /\ run[r].verified_data # None
         /\ DataTable[run[r].verified_data] = DataTable[run[r].extracted_data]

\* the first reply of the first round was an approval and the run is at
\* validation
C4_Witness ==
  /\ run[1].node = "validate_data_for_billing"
  /\ run[1].hist = <<"Extracting", "AwaitingVerification", "Validating">>
  /\ run[1].retries = 0
  /\ \E m \in run[1].thread : m.user = "human" /\ m.text = "approve"
  /\ Cardinality(run[1].thread) = 1

C6_MarkerBoundary ==
  [][ \A r \in RunIds :
        (run[r].hv_pc = "wait" /\ run'[r].hv_pc = "process")
          => /\ run'[r].response_message # <<>>
             /\ run'[r].response_message[1] \in run[r].thread
             /\ run'[r].response_message[1].ts > run[r].last_processed_interaction_ts ]_vars

\* the wait returned a reply written right after a follow-up that no filter
\* but the marker keeps out of the replies, and whose timestamp was the marker
C6_Witness ==
  /\ run[1].node = "human_verification"
  /\ run[1].hv_pc = "process"
  /\ ~bot_user_id
  /\ \E m \in run[1].thread :
       /\ m.user = "bot"
       /\ m.ts + 1 = run[1].response_message[1].ts

\* the failure a run records, in the terms of the failure taxonomy.  A
\* verification that ends without an approval is recorded with the one
\* text "Verification failed or timed out in Slack", whatever ended it.
FailureReason(rec) ==
  CASE rec.extraction_error # <<>> -> "extraction-error"
    [] rec.verification_error # <<>> -> "verification-timeout"
    [] rec.configuration_error # <<>> -> "provisioning-error"
    [] rec.validation_error # <<>> -> "validation-error"
    [] OTHER -> "none"

\* C7 (as stated): a run whose max_retries change cycles are used up
\* without an approval fails with the reason validation-error-exhausted,
\* and is never in Provisioning or Succeeded.  Checked under EngineSpec.
C7_ExhaustedReason ==
  \A r \in Launched :
    run[r].exhausted
      => /\ FailureReason(run[r]) = "validation-error-exhausted"
         /\ "Provisioning" \notin Range(run[r].hist)
         /\ "Succeeded" \notin Range(run[r].hist)

\* C7 (amended): a run whose max_retries change cycles are used up without
\* an approval fails with the failure it also records for a timeout
\* (verification-timeout), and is never in Provisioning or Succeeded.
\* Checked under EngineSpec.
C7_ExhaustedFailsAsTimeout ==
  \A r \in Launched :
    run[r].exhausted
      => /\ run[r].node \in {"mark_document_processed", "END"}
         /\ "Failed" \in Range(run[r].hist)
         /\ run[r].is_verified = "False"
         /\ run[r].verification_error = <<"Verification failed or timed out in Slack">>
         /\ FailureReason(run[r]) = "verification-timeout"
         /\ "Provisioning" \notin Range(run[r].hist)
         /\ "Succeeded" \notin Range(run[r].hist)
         /\ run[r].n_customer = 0 /\ run[r].n_subscription = 0

\* max_retries changes were applied in one round and the run has ended
C7_Witness ==
  /\ run[1].exhausted
  /\ run[1].retries = max_retries
  /\ run[1].node = "END"

\* the errors configure_billing reports when a remote call failed or
\* answered without an id
RemoteCallFailures ==
  { <<"CreateCustomer tool failed">>, <<"Failed to get customer ID from tool response.">>,
    <<"CreateSubscription tool failed">>, <<"Failed to get subscription ID from tool response.">> }

\* C8 (as stated): a run whose extraction yields name "Acme", email
\* "a@x.com", plan "Pro Plan" and seats 3, whose human approves, and none of
\* whose remote calls fails, passes validation, calls provisioning with
\* those values and ends Succeeded with a customer id and a subscription
\* id.  Checked under EngineSpec.
C8_Scenario1Succeeds ==
  \A r \in Launched :
    ( /\ run[r].extracted_data = "scenario1"
      /\ run[r].verified_data = "scenario1"
      /\ run[r].is_verified = "True"
      /\ run[r].node \in {"mark_document_processed", "END"}
      /\ run[r].configuration_error \notin RemoteCallFailures )
      => /\ run[r].is_valid_for_billing = "True"
         /\ run[r].customer_args = <<[name |-> "Acme", email |-> "a@x.com"]>>
         /\ run[r].subscription_args =
              <<[customer_id |-> run[r].cb_customer_id, plan_id |-> "plan_pro_monthly", user_count |-> 3]>>
         /\ "Succeeded" \in Range(run[r].hist)
         /\ run[r].customer_id # None
         /\ run[r].subscription_id # None

\* C9: when the revision message of a run whose approved data failed
\* validation is sent, the run is back in AwaitingVerification with
\* verified_data cleared and the verification and validation flags reset,
\* and no provisioning call was made.  Checked under EngineSpec.
C9_RevisionResetsRun ==
  [][ \A r \in RunIds :
        (run[r].node = "inform_user_of_validation_error" /\ slack_clock'[r] # slack_clock[r])
          => /\ run'[r].node = "human_verification"
             /\ run'[r].hv_pc = "send"
             /\ run'[r].verified_data = None
             /\ run'[r].is_verified = None
             /\ run'[r].is_valid_for_billing = None
             /\ run'[r].validation_error = <<>>
             /\ run'[r].n_customer = 0
             /\ run'[r].n_subscription = 0 ]_vars

\* the revision message was sent and the run is about to ask again
C9_Witness ==
  /\ run[1].node = "human_verification"
  /\ run[1].hv_pc = "send"
  /\ run[1].loops = 1
  /\ run[1].status = "processing"
  /\ \E m \in run[1].thread : m.text = "validation failed"

\* the ledger holds the item of a run
Handled(r) ==
  IF run[r].source = "email" THEN run[r].email_id \in processed_emails
  ELSE run[r].document_path \in processed_files

(***************************************************************************)
(* A graph task, once created, is run to its end by the event loop: each   *)
(* node returns, and a wait ends with a reply or with its timeout.         *)
(***************************************************************************)
FairApproverSpec == ApproverSpec /\ WF_vars(RunStep(1))

\* C10: a run whose wait ended with its timeout and no reply eventually has
\* ended as Failed with the verification failure recorded, the ledger holds
\* its item, and no provisioning call was made.  Checked under
\* FairApproverSpec.
C10_TimeoutFailsAndMarks ==
  \A r \in RunIds :
    run[r].timed_out
      ~> ( /\ run[r].node = "END"
           /\ "Failed" \in Range(run[r].hist)
           /\ FailureReason(run[r]) = "verification-timeout"
           /\ Handled(r)
           /\ run[r].n_customer = 0
           /\ run[r].n_subscription = 0 )

\* a run for a file timed out and has ended
C10_Witness ==
  /\ run[1].timed_out
  /\ run[1].source = "file"
  /\ run[1].node = "END"
  /\ run[1].document_path \in processed_files

\* a step of request_and_wait_for_verification in which a reply was taken
\* as a change request and the change was applied
ChangeApplied(r) ==
  /\ run[r].node = "human_verification"
  /\ run[r].hv_pc = "process"
  /\ run'[r].retries = run[r].retries + 1

SubscriptionFailures ==
  { <<"CreateSubscription tool failed">>, <<"Failed to get subscription ID from tool response.">> }

\* C12 (as stated): a run whose CreateCustomer call succeeded and whose
\* CreateSubscription call failed ends Failed(provisioning-error) with the
\* customer id of CreateCustomer in its final state and no subscription id.
\* Checked under EngineSpec.
C12_CustomerIdRecorded ==
  \A r \in Launched :
    ( /\ run[r].node \in {"mark_document_processed", "END"}
      /\ run[r].n_customer = 1
      /\ run[r].cb_customer_id # None
      /\ run[r].configuration_error \in SubscriptionFailures )
      => /\ "Failed" \in Range(run[r].hist)
         /\ FailureReason(run[r]) = "provisioning-error"
         /\ run[r].customer_id = run[r].cb_customer_id
         /\ run[r].subscription_id = None

\* C13 (as stated): every run that has ended, as Succeeded or as Failed for
\* whatever reason, wrote the ledger exactly once, and the ledger holds its
\* item, for a file and for an email.  Checked under EngineSpec.
C13_OneLedgerUpdatePerRun ==
  \A r \in Launched :
    run[r].node = "END" => (run[r].n_marked = 1 /\ Handled(r))

\* a run for the item has ended
Terminated(key) ==
  \E r \in Launched : ItemKey(r) = key /\ run[r].node = "END"

\* C14 (as stated): the ledgers hold an item only if a run for it has
\* reached its terminal stage; neither discovery nor the driver writes
\* them.  Checked under Spec.
C14_LedgerWrittenOnlyAtTerminal ==
  /\ \A p \in processed_files : Terminated(p)
  /\ \A e \in processed_emails : Terminated(e)

\* C15: the loop of the driver is never blocked by a run in flight: in
\* every state of the running driver, whatever the stages of the runs
\* launched so far, the next iteration of the loop can be taken (a launch
\* needs one of the task slots of the model to be free).  Checked under Spec.
C15_DriverNeverBlocked ==
  (driver.pc = "loop" /\ (document_queue = <<>> \/ FreeSlots # {}))
    => ENABLED driver_tick

\* the driver launched a run for a second item while the run for the first
\* was waiting for its verification reply
C15_Witness ==
  /\ run[1].node = "human_verification"
  /\ run[1].hv_pc = "wait"
  /\ run[2].node \notin {"none", "END"}
  /\ ItemKey(1) # ItemKey(2)

CustomerFailures ==
  { <<"CreateCustomer tool failed">>, <<"Failed to get customer ID from tool response.">> }

\* C17: create-subscription is attempted only after create-customer returned
\* a success with a non-empty id, and it is called with exactly that id; when
\* create-customer failed or gave no id, create-subscription is never called.
\* Checked under EngineSpec.
C17_SubscriptionAfterCustomer ==
  \A r \in Launched :
    /\ (run[r].node = "configure_billing" /\ run[r].cb_pc = "subscription")
         => (run[r].n_customer = 1 /\ run[r].cb_customer_id \in CustomerIds)
    /\ run[r].n_subscription > 0
         => /\ run[r].n_customer = 1
            /\ run[r].cb_customer_id \in CustomerIds
            /\ run[r].subscription_args[1].customer_id = run[r].cb_customer_id
    /\ run[r].configuration_error \in CustomerFailures => run[r].n_subscription = 0

\* create-subscription was called for the customer the worker named cus_2
C17_Witness ==
  /\ run[1].n_customer = 1
  /\ run[1].n_subscription = 1
  /\ run[1].cb_customer_id = "cus_2"
  /\ run[1].subscription_args[1].customer_id = "cus_2"

\* C18 (as stated): when the revision message of a run in AwaitingRevision
\* cannot be sent, the run goes to Failed and ends: it does not return to
\* AwaitingVerification and sends no further verification request.  Checked
\* under EngineSpec.
C18_SendFailureEndsRun ==
  [][ \A r \in RunIds :
        ( /\ run[r].node = "inform_user_of_validation_error"
          /\ run'[r].node # run[r].node
          /\ run'[r].status = "error" )
          => /\ run'[r].node = "mark_document_processed"
             /\ StageOf(run'[r].node, run'[r].status) = "Failed" ]_vars

\* C19 (as stated): when the extraction returns an error or an empty result
\* (null or an empty mapping), the run goes directly from Extracting to
\* Failed with the reason extraction-error: no verification message is sent,
\* nothing is validated or provisioned, and the status the run ends with is
\* a failure.  Checked under EngineSpec.
C19_ExtractionFailureFails ==
  \A r \in Launched :
    (run[r].n_extract = 1 /\ ~Truthy(run[r].extracted_data))
      => /\ run[r].node \in {"mark_document_processed", "END"}
         /\ run[r].hist[2] = "Failed"
         /\ run[r].threads_opened = <<>> /\ run[r].thread = {}
         /\ run[r].is_valid_for_billing = None
         /\ run[r].n_customer = 0 /\ run[r].n_subscription = 0
         /\ FailureReason(run[r]) = "extraction-error"
         /\ run[r].node = "mark_document_processed" => run[r].status = "error"

\* the step of run r sent a clarification into its thread
ClarificationSent(r) ==
  /\ run[r].node = "human_verification" /\ run[r].hv_pc = "process"
  /\ run'[r].hv_status = "unclear"
  /\ \E m \in run'[r].thread \ run[r].thread : m.user = "bot"

FieldPresent(data, keys) ==
  \E k \in keys : k \in DOMAIN data /\ data[k] \notin {None, "", "N/A", "null"}

\* customer name, contact email and plan selection are all present
AllPresent(data) ==
  /\ FieldPresent(data, {"company", "customer_name", "name"})
  /\ FieldPresent(data, {"email", "contact", "email/contact"})
  /\ FieldPresent(data, {"subscription", "plan", "plan_type", "subscription/plan_type"})

\* the plan value of a mapping: every mapping of DataTable has at most one
\* key that holds one
PlanValue(data) ==
  data[CHOOSE k \in {"subscription", "plan", "plan_type", "subscription/plan_type"} :
         k \in DOMAIN data /\ data[k] \notin {None, "", "N/A", "null"}]

\* a trimmed, lower-cased plan value without a trailing "plan"
DropTrailingPlan(v) ==
  CASE v = "pro plan" -> "pro"
    [] v = "basic plan" -> "basic"
    [] v = "enterprise plan" -> "enterprise"
    [] OTHER -> v

RecognizedPlanNames == {"basic", "pro", "enterprise"}

\* the runs whose verified data has been validated
Validated == { r \in Launched : run[r].is_valid_for_billing # None /\ Truthy(run[r].verified_data) }

\* C21 (as stated): validation accepts data if and only if customer name,
\* contact email and plan selection are all present and the plan value,
\* trimmed, lower-cased and without a trailing "plan", is one of basic, pro,
\* enterprise; any other plan value is rejected.  Checked under
\* ValidationSpec.
C21_AcceptsRecognizedPlansOnly ==
  \A r \in Validated :
    LET data == DataTable[run[r].verified_data]
    IN  run[r].is_valid_for_billing = "True"
          <=> /\ AllPresent(data)
              /\ DropTrailingPlan(StripLower(PlanValue(data))) \in RecognizedPlanNames

\* C21 (amended): validation accepts data if and only if customer name,
\* contact email and plan selection are all present and the plan value,
\* trimmed and lower-cased, either is one of basic, pro, enterprise with or
\* without a trailing " plan", or starts with "plan_"; any other plan value
\* is rejected.  Checked under ValidationSpec.
C21_AcceptsPlanNamesAndPlanIds ==
  \A r \in Validated :
    LET data == DataTable[run[r].verified_data]
    IN  /\ run[r].is_valid_for_billing = "True"
          <=> /\ AllPresent(data)
              /\ \/ DropTrailingPlan(StripLower(PlanValue(data))) \in RecognizedPlanNames
                 \/ StartsWithPlan_(StripLower(PlanValue(data)))
        /\ run[r].is_valid_for_billing = "True" <=> run[r].validation_error = <<>>

\* a mapping whose plan value is the id plan_custom passed validation
C21_Witness ==
  /\ run[1].verified_data = "planid"
  /\ run[1].is_valid_for_billing = "True"
  /\ run[1].node = "configure_billing"

\* a tick of the driver that checked the mailbox: it restarted the clock of
\* the email check, or took an email from the mailbox or from the queue
EmailPolled ==
  /\ driver_tick
  /\ \/ driver'.since_email_check < driver.since_email_check
     \/ processed_emails' # processed_emails
     \/ email_queue' # email_queue

\* C22: the file source is polled on every tick of the driver (a queued
\* document is taken by the very next tick, whatever the clock of the email
\* check shows, and that tick leaves the mailbox alone), and the email source
\* is polled only when at least the email interval of 60 seconds has passed
\* since its last poll.  Checked under CadenceSpec.
C22_PollCadence ==
  [][ /\ (driver_tick /\ document_queue # <<>>)
           => /\ document_queue' = Tail(document_queue)
              /\ \E r \in RunIds : /\ run[r].node = "none"
                                    /\ run'[r].source = "file"
                                    /\ run'[r].document_path = Head(document_queue)
              /\ UNCHANGED <<email_queue, processed_emails>>
      /\ EmailPolled
           => /\ driver.since_email_check >= EmailInterval
              /\ document_queue = <<>>
              /\ driver'.since_email_check < EmailInterval ]_vars

\* the mailbox was checked, an email was found and its task launched, and
\* the next check, a full interval later, has just been made and found
\* nothing
C22_Witness ==
  /\ \E r \in Launched : run[r].source = "email"
  /\ processed_emails = {"e1"}
  /\ driver.since_email_check = IdleSleep

\* C23 (as stated): a ledger entry is written once: an item marked handled
\* stays handled after every later event of the sources, a modification of
\* the same file included, and no new run is launched for it.  Checked under
\* Spec.
C23_LedgerWriteOnce ==
  [][ /\ processed_files \subseteq processed_files'
      /\ processed_emails \subseteq processed_emails'
      /\ \A r \in RunIds :
           (run[r].node = "none" /\ run'[r].node # "none" /\ run'[r].source = "file")
             => run'[r].document_path \notin processed_files ]_vars

\* a tool of the Orb toolkit has been called
ToolCalled == orb.tool # None

\* the HTTP call of the last tool call was answered with a 4xx or 5xx status
FailedHttpCall ==
  ToolCalled /\ orb.outcome.kind = "response" /\ orb.outcome.status >= 400

\* the HTTP call of the last tool call was answered with a 2xx status
SucceededHttpCall ==
  ToolCalled /\ orb.outcome.kind = "response" /\ orb.outcome.status < 300

\* C24 (as stated): the billing tools never raise on a failed HTTP call: for
\* every 4xx/5xx response they return {error: "API Error: <status>",
\* details: <parsed response body>}, and on success they return the response
\* body unchanged.  Checked under OrbSpec.
C24_ToolsReturnErrorsAndBodies ==
  /\ ToolCalled => orb.result.returned
  /\ FailedHttpCall
       => orb.result.value = [error |-> ApiError(orb.outcome.status),
                              details |-> ParseJson(orb.outcome.body.text)]
  /\ SucceededHttpCall => orb.result.value = ParseJson(orb.outcome.body.text)

\* C24 (amended): the billing tools never raise on a failed HTTP call: for
\* every 4xx/5xx response they return {error: "API Error: <status>",
\* details: <the parsed response body, or its text when it is not JSON>};
\* for a 2xx response with a JSON body they return the parsed body
\* unchanged, for a 204 {success: true, status_code: 204}, and for another
\* 2xx response whose body is not JSON {error: "Invalid response format",
\* details: <text>}; a request that got no response gives {error: "Request
\* Error", details: <message>}.  Checked under OrbSpec.
C24_ToolsReturnErrorsOrParsedBodies ==
  /\ ToolCalled => orb.result.returned
  /\ FailedHttpCall
       => /\ orb.result.value.error = ApiError(orb.outcome.status)
          /\ orb.result.value.details =
                IF orb.outcome.body.is_json THEN ParseJson(orb.outcome.body.text)
                ELSE RawText(orb.outcome.body.text)
  /\ (SucceededHttpCall /\ orb.outcome.status # 204 /\ orb.outcome.body.is_json)
       => orb.result.value = ParseJson(orb.outcome.body.text)
  /\ (SucceededHttpCall /\ orb.outcome.status = 204)
       => orb.result.value = [success |-> TRUE, status_code |-> 204]
  /\ (SucceededHttpCall /\ orb.outcome.status # 204 /\ ~orb.outcome.body.is_json)
       => orb.result.value = [error |-> "Invalid response format",
                              details |-> RawText(orb.outcome.body.text)]
  /\ (ToolCalled /\ orb.outcome.kind = "request_error")
       => orb.result.value = [error |-> "Request Error",
                              details |-> RawText(orb.outcome.body.text)]

\* create_subscription was answered with a 500 whose body is not JSON and
\* returned the API error with the text of the body
C24_Witness ==
  /\ orb.tool = "create_subscription"
  /\ orb.outcome.kind = "response" /\ orb.outcome.status = 500
  /\ ~orb.outcome.body.is_json
  /\ orb.result.returned
  /\ orb.result.value.error = "API Error: 500"

\* the runs that are in Provisioning or have made a provisioning call
Provisioning == { r \in Launched : run[r].node = "configure_billing" \/ run[r].n_customer > 0 }

\* C25: a provisioning call is made only when the verified_data of the run
\* was approved by the human in the latest verification round and passed
\* validation after that approval; Provisioning is entered from Validating
\* only, and Validating from AwaitingVerification only.  Checked under
\* EngineSpec.
C25_ProvisioningNeedsApprovalAndValidation ==
  \A r \in Provisioning :
    /\ run[r].is_verified = "True"
    /\ Truthy(run[r].verified_data)
    /\ run[r].verified_data = run[r].current_data
    /\ run[r].response_message # <<>>
    /\ HasApprovalKeyword(run[r].response_message[1].text)
    /\ run[r].response_message[1].ts > run[r].message_ts
    /\ run[r].message_ts = run[r].threads_opened[Len(run[r].threads_opened)]
    /\ run[r].is_valid_for_billing = "True"
    /\ validate_data(DataTable[run[r].verified_data])[1]
    /\ \A i \in DOMAIN run[r].hist :
         /\ run[r].hist[i] = "Provisioning"
              => (i > 2 /\ run[r].hist[i - 1] = "Validating"
                        /\ run[r].hist[i - 2] = "AwaitingVerification")
         /\ (run[r].hist[i] = "Validating" /\ i > 1)
              => run[r].hist[i - 1] = "AwaitingVerification"

\* create-customer was called in a run whose first approved data failed
\* validation and whose changed data was approved in the second round
C25_Witness ==
  /\ run[1].n_customer = 1
  /\ "AwaitingRevision" \in Range(run[1].hist)
  /\ run[1].retries = 1
  /\ run[1].verified_data # run[1].extracted_data

\* C26: within one verification conversation, whatever the polls, updates
\* and clarifications, each human reply is processed at most once and no
\* message of the engine is processed as a reply: a reply handed to
\* process_response was written by the human into the thread and is newer
\* than last_processed_interaction_ts, which moves to it, and within a
\* conversation last_processed_interaction_ts never moves back.  Checked
\* under EngineSpec.
C26_RepliesProcessedOnce ==
  [][ \A r \in RunIds :
        /\ (run[r].hv_pc = "wait" /\ run'[r].hv_pc = "process")
             => /\ run'[r].response_message # <<>>
                /\ run'[r].response_message[1] \in run[r].thread
                /\ run'[r].response_message[1].user = "human"
                /\ run'[r].response_message[1].ts > run[r].last_processed_interaction_ts
                /\ run'[r].response_message[1].ts > run[r].message_ts
                /\ run'[r].last_processed_interaction_ts = run'[r].response_message[1].ts
        /\ (run[r].hv_pc \in {"wait", "process"} /\ run'[r].hv_pc \in {"wait", "process"})
             => /\ run'[r].message_ts = run[r].message_ts
                /\ run'[r].last_processed_interaction_ts
                     >= run[r].last_processed_interaction_ts ]_vars

\* with no bot user id configured, a third reply of a conversation is being
\* processed after an update and a clarification of the engine
C26_Witness ==
  /\ ~bot_user_id
  /\ run[1].hv_pc = "process"
  /\ run[1].retries = 1
  /\ run[1].hv_status = "unclear"
  /\ Cardinality({ m \in run[1].thread : m.user = "bot" }) = 2
  /\ Cardinality({ m \in run[1].thread : m.user = "human" }) >= 3

\* the results of the change-applying model that report no change
NoChangesApplied ==
  { llm \in LLMResults : /\ ~llm.raised /\ llm.error = None
                         /\ ~(llm.changes_applied /\ Truthy(llm.updated_data)) }

\* the results of the change-applying model that carry an explicit error
ExplicitError == { llm \in LLMResults : ~llm.raised /\ llm.error # None }

\* C27: for a reply that is not an approval, a result of the change-applying
\* model that says "no changes applied" and one that carries an explicit
\* error are treated alike: both give the outcome unclear with the candidate
\* data unchanged, and neither gives the outcome on which the run is
\* aborted.  Checked under EngineSpec.
C27_NoChangeAndErrorAreUnclear ==
  \A r \in Launched :
    ( /\ run[r].node = "human_verification" /\ run[r].hv_pc = "process"
      /\ ~HasApprovalKeyword(run[r].response_message[1].text) )
      => \A llm \in NoChangesApplied \cup ExplicitError :
           /\ process_response(run[r].response_message[1], run[r].current_data, llm)
                = <<"unclear", run[r].current_data>>
           /\ process_response(run[r].response_message[1], run[r].current_data, llm)[1]
                \notin {"error", "changes_requested", "approved"}

\* a first reply that asked for something was found unclear and the run
\* waits for the next reply with the extracted data as its candidate
C27_Witness ==
  /\ run[1].node = "human_verification" /\ run[1].hv_pc = "wait"
  /\ run[1].hv_status = "unclear"
  /\ run[1].retries = 0
  /\ run[1].current_data = run[1].extracted_data
  /\ Cardinality({ m \in run[1].thread : m.user = "human" }) = 1

\* what the program finds in its two logs when it starts again
Ledger == Load(disk.files) \cup Load(disk.emails)

\* every task is over
AllEnded == \A r \in RunIds : run[r].node = "END"

\* C28: once the runs that ran at the same time are all over, the ledger
\* holds the item key of every one of them that marked its item: no update
\* is lost to or overwritten by the update of another run.
C28_NoLostLedgerUpdate ==
  AllEnded => \A r \in RunIds : run[r].n_marked > 0 => ItemKey(r) \in Ledger

\* the verification request of run r is refused: the run goes from its
\* first step in human_verification straight to its end
RequestRefused(r) ==
  /\ send_verification_request(r)
  /\ run'[r].node = "mark_document_processed"

\* C29: what a run does depends on its own item and its own collaborator
\* results only.  A run whose verification request is refused was refused
\* on a result of its own, a token fetch it made or its own send: it never
\* meets a failed token fetch that another run made and the helper kept.
C29_RunIndependence ==
  [][\A r \in RunIds : RequestRefused(r) => token \in {"unfetched", "ok"}]_vars

\* run r ends Succeeded: configure_billing returned status success and the
\* graph routed the run to mark_document_processed
EndsSucceeded(r) ==
  /\ run[r].node = "mark_document_processed"
  /\ run[r].status = "success"

\* C30: a failure message is on a run only when the run ends Failed.  A run
\* that ends Succeeded carries no error message, also when it went through
\* validation-failure loop-backs before.
C30_NoMessageOnSuccess ==
  \A r \in RunIds : EndsSucceeded(r) => run[r].error_message = <<>>

\* C31: the engine never repeats a collaborator call.  Every launched run
\* calls the extraction once, when it leaves process_document, and calls
\* CreateCustomer and CreateSubscription at most once each, whatever the
\* calls returned.
C31_NoCollaboratorRetry ==
  \A r \in Launched :
     /\ run[r].n_extract = IF run[r].node = "process_document" THEN 0 ELSE 1
     /\ run[r].n_customer <= 1
     /\ run[r].n_subscription <= 1

\* a run is over after both provisioning calls were made and the second failed
C31_Witness ==
  /\ run[1].node = "END"
  /\ run[1].n_extract = 1
  /\ run[1].n_customer = 1
  /\ run[1].n_subscription = 1
  /\ run[1].configuration_error # <<>>

\* C32: validation and provisioning agree on the data.  Whenever a run
\* stands before configure_billing, which the graph allows only with data
\* that validate_data accepted, configure_billing finds the customer name,
\* the customer email and a plan it can map in these data: it raises no
\* error before the CreateCustomer call.
C32_ValidatedDataProvisions ==
  \A r \in RunIds :
     (run[r].node = "configure_billing" /\ run[r].cb_pc = "customer")
       => /\ Truthy(run[r].verified_data)
          /\ validate_data(DataTable[run[r].verified_data])[1]
          /\ billing_args(DataTable[run[r].verified_data]).error = <<>>

\* C33: no step changes extracted_data once the extraction has returned,
\* and every verification round, the rounds after a validation-failure
\* loop-back included, presents these original data to the human: what the
\* human changed in an earlier round is not carried over.
C33_RoundsPresentExtractedData ==
  [][\A r \in RunIds :
       /\ run[r].node \notin {"none", "process_document"}
            => run'[r].extracted_data = run[r].extracted_data
       /\ (send_verification_request(r) /\ run'[r].hv_pc = "wait")
            => run'[r].current_data = run[r].extracted_data]_vars

\* a run waits in its second round with the extracted data before the
\* human, after data the human had changed failed validation: the
\* extracted data themselves are valid
C33_Witness ==
  /\ run[1].node = "human_verification"
  /\ run[1].hv_pc = "wait"
  /\ run[1].loops = 1
  /\ Len(run[1].threads_opened) = 2
  /\ run[1].error_message = <<"Data validation failed">>
  /\ validate_data(DataTable[run[1].extracted_data])[1]
  /\ run[1].current_data = run[1].extracted_data

\* C34: approval goes before the interpretation of changes.  A reply whose
\* stripped, lower-cased text holds an approval keyword anywhere ends the
\* verification as approved with the candidate data as they were, whatever
\* the change-applying model would have made of it, also when the reply asks
\* for a change.
C34_ApprovalBeforeChanges ==
  [][\A r \in RunIds :
       (handle_response(r) /\ run[r].response_message[1].text \in ApprovingTexts)
         => /\ run'[r].node = "validate_data_for_billing"
            /\ run'[r].is_verified = "True"
            /\ run'[r].verified_data = run[r].current_data
            /\ run'[r].retries = run[r].retries
            /\ slack_clock' = slack_clock]_vars

\* the only reply of the run approved and asked for a change at once; the
\* run went on to validation with the extracted data
C34_Witness ==
  /\ run[1].node = "validate_data_for_billing"
  /\ run[1].thread = {Message(run[1].last_processed_interaction_ts, "human",
                              "Yes, but change plan to enterprise")}
  /\ run[1].retries = 0
  /\ run[1].verified_data = run[1].extracted_data

\* the human replies of a conversation that are older than a follow-up of
\* the engine in it
OlderThanFollowUp(rec) ==
  { m \in rec.thread : /\ m.user = "human"
                       /\ \E b \in rec.thread : b.user = "bot" /\ b.ts > m.ts }

\* C35: a reply the human writes while an earlier reply is being processed
\* gets a timestamp before that of the follow-up the engine then sends; as
\* last_processed_interaction_ts moves to the follow-up, no later wait of the
\* conversation returns it: a wait never returns a human reply that is
\* older than a follow-up of the conversation.
C35_RacedReplySkipped ==
  [][\A r \in RunIds :
       (run[r].hv_pc = "wait" /\ run'[r].hv_pc = "process")
         => run'[r].response_message[1] \notin OlderThanFollowUp(run[r])]_vars

\* an approval written while a request for a change was processed was never
\* returned by a wait: the follow-up came right after it and the next wait
\* ran into its timeout
C35_Witness ==
  /\ run[1].node = "END"
  /\ run[1].timed_out
  /\ run[1].races = 1
  /\ \E p, m, b \in run[1].thread :
        /\ p.user = "human" /\ p.text = "change plan to enterprise"
        /\ m.user = "human" /\ m.text = "approve" /\ m.ts = p.ts + 1
        /\ b.user = "bot" /\ b.ts = m.ts + 1
        /\ run[1].last_processed_interaction_ts = b.ts

LaunchedBy == { r \in RunIds : run[r].node = "none" /\ run'[r].node # "none" }

\* C37: a tick of the driver on which the file source yields a document does
\* not poll the mailbox, however long ago the last email check was: the
\* email queue and the email ledger stay as they are and the clock of the
\* email check is not restarted.  Every tick launches at most one run.
\* Checked under CadenceSpec.
C37_EmailOnlyWithoutDocument ==
  [][ /\ (driver_tick /\ document_queue # <<>>)
           => /\ email_queue' = email_queue
              /\ processed_emails' = processed_emails
              /\ driver'.since_email_check >= driver.since_email_check
              /\ \A r \in LaunchedBy : run'[r].source = "file"
      /\ driver_tick => Cardinality(LaunchedBy) <= 1 ]_vars

\* two documents were launched by two ticks while an email was in the
\* mailbox and the email check was due: the mailbox was not checked
C37_Witness ==
  /\ Cardinality({ r \in Launched : run[r].source = "file" }) = 2
  /\ inbox # {}
  /\ processed_emails = {}
  /\ email_queue = <<>>
  /\ driver.since_email_check = EmailInterval

(***************************************************************************)
(* The driver with an item discovery that can raise: process_email writes  *)
(* the email and its attachments to local files outside any try block.     *)
(***************************************************************************)
\* A faulty variant of Unhandled: the iteration that raised is given up and
\* the loop goes on with its next iteration.  C38 does not hold of it.
Unhandled_per_item(d) == [d EXCEPT !.since_email_check = Elapse(0, IdleSleep)]

\* the except and finally blocks around the loop of run_workflow: the
\* exception is logged, both watchers are stopped and run_workflow returns
Unhandled(d) == [d EXCEPT !.pc = "stopped", !.since_email_check = 0]

\* an iteration of the loop of run_workflow whose process_email raises,
\* before mark_email_processed or in its save; get_next_email has already
\* taken the email from the queue
discovery_exception ==
  /\ CanTick
  /\ TurnsToEmail(document_queue, driver.since_email_check)
  /\ should_check_email(driver.since_email_check)
  /\ \E found \in UNION { Orderings(S) : S \in SUBSET (inbox \ processed_emails) } :
       LET q == IF email_queue # <<>> THEN email_queue ELSE found
       IN  /\ q # <<>>
           /\ email_queue' = Tail(q)
           /\ \E marked \in BOOLEAN :
                processed_emails' = IF marked THEN processed_emails \cup {Head(q)}
                                    ELSE processed_emails
  /\ driver' = Unhandled(driver)
  /\ UNCHANGED <<dir_files, processed_files, document_queue, inbox, run, slack_clock,
                 token, bot_user_id, env,
                 orb, disk, saving>>

\* asyncio.run(run_workflow()) cancels the tasks that are left when
\* run_workflow has returned: the task ends where it is, and the except
\* branch of invoke_graph_for_item, which marks the item, does not catch the
\* cancellation
task_cancelled(r) ==
  /\ driver.pc = "stopped"
  /\ run[r].node \notin {"none", "END"}
  /\ saving[r].pc = "idle"
  /\ run' = [run EXCEPT ![r].node = "END", ![r].hv_pc = "-", ![r].cb_pc = "-"]
  /\ UNCHANGED <<dir_files, processed_files, document_queue, inbox, processed_emails,
                 email_queue, driver, slack_clock, token, bot_user_id, env,
                 orb, disk, saving>>

DiscoveryInit ==
  /\ dir_files \in SUBSET Paths
  /\ processed_files = {}
  /\ document_queue = <<>>
  /\ inbox = {}
  /\ processed_emails = {}
  /\ email_queue = <<>>
  /\ driver = [pc |-> "start", since_email_check |-> EmailInterval]
  /\ run = [r \in RunIds |-> NoRun]
  /\ slack_clock = [r \in RunIds |-> 1]
  /\ token = "unfetched"
  /\ orb = NoCall
  /\ disk = NoLogs
  /\ saving = [r \in RunIds |-> NotSaving]
  /\ bot_user_id = TRUE
  /\ env = [texts |-> {"approve"}, faults |-> FALSE,
            extractions |-> { x \in ExtractionResults : x.error # <<>> },
            max_ts |-> SystemTs, max_loops |-> MaxLoops, tick_extra |-> 0]

DiscoveryNext ==
  \/ start
  \/ driver_tick
  \/ discovery_exception
  \/ \E p \in Paths : on_created(p)
  \/ \E p \in Paths : on_modified(p)
  \/ \E p \in Paths : FileDeleted(p)
  \/ \E e \in EmailIds : EmailArrives(e)
  \/ \E r \in RunIds : process_document_node(r)
  \/ \E r \in RunIds : mark_document_processed_node(r)
  \/ \E r \in RunIds : task_cancelled(r)

DiscoverySpec == DiscoveryInit /\ [][DiscoveryNext]_vars

\* C38: an exception raised while an email is made into a document ends the
\* loop of the driver instead of the one item: the step that raises stops
\* the driver and the watchers without waiting for the runs, which it leaves
\* as they are, and from then on the driver stays stopped, no document and
\* no email is queued or taken, and no run is launched.
C38_DiscoveryErrorStopsDriver ==
  [][ /\ discovery_exception
           => /\ driver'.pc = "stopped"
              /\ ~ObserverRunning'
              /\ run' = run
      /\ driver.pc = "stopped"
           => /\ driver'.pc = "stopped"
              /\ document_queue' = document_queue
              /\ email_queue' = email_queue
              /\ processed_emails' \subseteq processed_emails \cup
                    { run[r].email_id : r \in Launched }
              /\ LaunchedBy = {} ]_vars

\* the driver was stopped by an email that could not be made into a
\* document while a run was under way: the run was cancelled without its
\* item being marked, and the email is neither marked nor queued
C38_Witness ==
  /\ driver.pc = "stopped"
  /\ \E r \in Launched :
        /\ run[r].node = "END"
        /\ run[r].n_marked = 0
        /\ run[r].document_path \notin processed_files
  /\ inbox # {}
  /\ processed_emails = {}
  /\ email_queue = <<>>

====
